---- MODULE Spec2Model ----
(***************************************************************************)
(* Verification model of the MLPF tensor code in src/mlpf/tfmodel/model.py *)
(* (graph builders, graph convolutions, top-level models).                 *)
(*                                                                         *)
(* Tensors are functions over 0-based index ranges, as in the source.      *)
(* Floating-point numbers are fixed-point numbers in units of 1/1000 (the  *)
(* integer 1000 stands for 1.0); products and the real-valued functions    *)
(* (exp, sigmoid, sqrt) round down to that grid and saturate where the     *)
(* grid ends, as floating point does at the ends of its range.  Indices,   *)
(* counts and the categorical element type are plain integers.             *)
(***************************************************************************)
EXTENDS Integers, Sequences, FiniteSets, TLC

VARIABLES
    config,      \* constructor arguments of the layer or model under call
    weights,     \* model parameters (Dense kernels and biases, LSH codebook)
    X,           \* input tensor of the call: batch -> element -> value
    msk,         \* element validity: batch -> element -> BOOLEAN
    pc,          \* position inside the call
    bins_split,  \* bin assignment computed by the call
    dm,          \* adjacency computed by the call
    ret          \* remaining values the call has computed or returned

vars == <<config, weights, X, msk, pc, bins_split, dm, ret>>

(***************************************************************************)
(* Bounds of the model.                                                    *)
(***************************************************************************)
MaxPoints == 4      \* most elements in a batch (batch size times N)
MaxBinSize == 2     \* largest bin_size
max_num_bins == 4   \* GraphBuilderDense / SparseHashedNNDistance max_num_bins

None == [status |-> "none"]
Error(why) == [status |-> "error", why |-> why]
IsOk(r) == r.status = "ok"

Range0(n) == 0 .. (n - 1)

\* The result of a map over the batch: the first failure, or all the values.
MapBatch(per) ==
    IF \E b \in DOMAIN per : ~IsOk(per[b])
    THEN per[CHOOSE b \in DOMAIN per : ~IsOk(per[b])]
    ELSE [status |-> "ok", value |-> [b \in DOMAIN per |-> per[b].value]]
Min(a, b) == IF a < b THEN a ELSE b
Max(a, b) == IF a > b THEN a ELSE b

(***************************************************************************)
(* Fixed-point arithmetic.                                                 *)
(***************************************************************************)
Mul(a, b) == a * (b \div 1000) + (a * (b % 1000)) \div 1000

RECURSIVE SumSeq(_)
SumSeq(xs) == IF xs = <<>> THEN 0 ELSE Head(xs) + SumSeq(Tail(xs))

\* The largest r with r * r <= n, by bisection of lo..hi.
RECURSIVE ISqrtIn(_, _, _)
ISqrtIn(n, lo, hi) ==
    IF lo >= hi THEN lo
    ELSE LET mid == (lo + hi + 1) \div 2
         IN  IF mid * mid <= n THEN ISqrtIn(n, mid, hi) ELSE ISqrtIn(n, lo, mid - 1)

ISqrt(n) == ISqrtIn(n, 0, Min(n, 46340))

\* The largest number of the grid, standing for +infinity.
Inf == 2147483647

\* 1000 * exp(-q) and 1000 * exp(-j/10), rounded down.
ExpNegUnits == <<1000, 367, 135, 49, 18, 6, 2>>
ExpNegTenths == <<1000, 904, 818, 740, 670, 606, 548, 496, 449, 406>>
\* 1000 * exp(q) and 1000 * exp(j/10), rounded down.
ExpPosUnits == <<1000, 2718, 7389, 20085, 54598, 148413, 403428, 1096633,
                 2980957, 8103083, 22026465, 59874141, 162754791, 442413392>>
ExpPosTenths == <<1000, 1105, 1221, 1349, 1491, 1648, 1822, 2013, 2225, 2459>>

\* tf.exp: underflows to 0 and overflows to +infinity at the ends of the grid.
Exp(v) ==
    IF v >= 0
    THEN LET q == v \div 1000
             r == (v % 1000) \div 100
         IN  IF q >= Len(ExpPosUnits) THEN Inf
             ELSE IF ExpPosUnits[q + 1] > 1000000
                  THEN (ExpPosUnits[q + 1] \div 1000) * ExpPosTenths[r + 1]
                  ELSE (ExpPosUnits[q + 1] * ExpPosTenths[r + 1]) \div 1000
    ELSE LET q == (0 - v) \div 1000
             r == ((0 - v) % 1000) \div 100
         IN  IF q >= Len(ExpNegUnits) THEN 0
             ELSE (ExpNegUnits[q + 1] * ExpNegTenths[r + 1]) \div 1000

\* tf.nn.sigmoid
Sigmoid(v) ==
    IF v >= 0 THEN 1000000 \div (1000 + Exp(0 - v))
    ELSE (1000 * Exp(v)) \div (1000 + Exp(v))

\* tf.keras.activations.elu
Elu(v) == IF v >= 0 THEN v ELSE Exp(v) - 1000

\* tf.clip_by_value, and a faulty variant that passes the value through
\* unclipped.
clip_by_value_unclipped(v, lo, hi) == v

clip_by_value(v, lo, hi) == IF v < lo THEN lo ELSE IF v > hi THEN hi ELSE v

(***************************************************************************)
(* point_wise_feed_forward_network: num_layers Dense layers with the       *)
(* activation, then one Dense layer without.  Every unit of every layer    *)
(* carries the kernel value w.kernel on each of its inputs and the bias    *)
(* w.bias; a hidden layer is one unit wide.  xs is the row of inputs.      *)
(***************************************************************************)
DenseUnit(w, xs) == SumSeq([i \in DOMAIN xs |-> Mul(w.kernel, xs[i])]) + w.bias

RECURSIVE FfnHidden(_, _, _)
FfnHidden(w, num_layers, xs) ==
    IF num_layers = 0 THEN xs
    ELSE FfnHidden(w, num_layers - 1, <<Elu(DenseUnit(w, xs))>>)

point_wise_feed_forward_network(w, num_layers, xs) ==
    DenseUnit(w, FfnHidden(w, num_layers, xs))

(***************************************************************************)
(* tf.argmax along the last axis: the first index holding the largest      *)
(* value.  The row must not be empty (TensorFlow rejects an empty          *)
(* reduction axis).                                                        *)
(***************************************************************************)
ArgMax(row) ==
    CHOOSE i \in DOMAIN row :
        /\ \A j \in DOMAIN row : row[j] <= row[i]
        /\ \A j \in DOMAIN row : j < i => row[j] < row[i]

(***************************************************************************)
(* tf.argsort (ascending, ties keep index order): position p of the result *)
(* holds the index of the element with exactly p elements before it.       *)
(***************************************************************************)
SortRank(keys, i) ==
    Cardinality({j \in DOMAIN keys :
                    keys[j] < keys[i] \/ (keys[j] = keys[i] /\ j < i)})

ArgSort(keys) ==
    [p \in DOMAIN keys |-> CHOOSE i \in DOMAIN keys : SortRank(keys, i) = p]

(***************************************************************************)
(* tf.reshape of a flat vector of n entries to (nbins, bin_size): fails    *)
(* unless n = nbins * bin_size.                                            *)
(***************************************************************************)
\* Faulty variant: the elements that do not fill a bin are dropped.
Reshape2Truncating(flat, n, nbins, bin_size) ==
    [status |-> "ok",
     value |-> [b \in Range0(nbins) |->
                   [p \in Range0(bin_size) |-> flat[b * bin_size + p]]]]

Reshape2(flat, n, nbins, bin_size) ==
    IF n # nbins * bin_size
    THEN Error("reshape")
    ELSE [status |-> "ok",
          value |-> [b \in Range0(nbins) |->
                        [p \in Range0(bin_size) |-> flat[b * bin_size + p]]]]

(***************************************************************************)
(* The LSH scores of one element with embedding x (distance_dim = 1):      *)
(* mul = x . codebook[:, :n_bins//2], cmul = concat(mul, -mul).  A Python  *)
(* slice past the end of the codebook stops at its end.                    *)
(***************************************************************************)
LshWidth(n_bins) == Min(n_bins \div 2, max_num_bins \div 2)

LshScores(x, codebook, n_bins) ==
    LET h == LshWidth(n_bins)
    IN  [j \in Range0(2 * h) |->
            IF j < h THEN Mul(x, codebook[j]) ELSE -Mul(x, codebook[j - h])]

(***************************************************************************)
(* split_indices_to_bins(cmul, nbins, bin_size), one event.                *)
(* cmul: element -> scores.                                                *)
(***************************************************************************)
SplitBinIdx(cmul) == [i \in DOMAIN cmul |-> ArgMax(cmul[i])]

\* Faulty variant: the bin indices are reshaped in place of the sorted
\* element indices.
split_indices_to_bins_unsorted(cmul, nbins, bin_size) ==
    IF \E i \in DOMAIN cmul : DOMAIN cmul[i] = {}
    THEN Error("argmax of an empty axis")
    ELSE Reshape2(SplitBinIdx(cmul), Cardinality(DOMAIN cmul), nbins, bin_size)

split_indices_to_bins(cmul, nbins, bin_size) ==
    IF \E i \in DOMAIN cmul : DOMAIN cmul[i] = {}
    THEN Error("argmax of an empty axis")
    ELSE Reshape2(ArgSort(SplitBinIdx(cmul)), Cardinality(DOMAIN cmul), nbins, bin_size)

(***************************************************************************)
(* split_indices_to_bins_batch(cmul, nbins, bin_size, msk), per batch      *)
(* entry: masked elements get nbins-1 added to their bin index.            *)
(***************************************************************************)
BatchBinIdx(cmul, nbins, m) ==
    [i \in DOMAIN cmul |-> ArgMax(cmul[i]) + (IF ~m[i] THEN nbins - 1 ELSE 0)]

split_indices_to_bins_entry(cmul, nbins, bin_size, m) ==
    IF \E i \in DOMAIN cmul : DOMAIN cmul[i] = {}
    THEN Error("argmax of an empty axis")
    ELSE Reshape2(ArgSort(BatchBinIdx(cmul, nbins, m)), Cardinality(DOMAIN cmul), nbins, bin_size)

split_indices_to_bins_batch(cmul, nbins, bin_size, m) ==
    MapBatch([b \in DOMAIN cmul |->
                split_indices_to_bins_entry(cmul[b], nbins, bin_size, m[b])])

(***************************************************************************)
(* Shapes (batch size, N) of the input tensors of the model.               *)
(***************************************************************************)
Shapes == {s \in (1 .. 2) \X (1 .. MaxPoints) : s[1] * s[2] <= MaxPoints}
Coords == {-1000, 0, 1000}
CodeVals == {-2000, 1000}
Codebooks == [Range0(max_num_bins \div 2) -> CodeVals]

NPoints == Cardinality(DOMAIN X[0])
NBins(n_points, bin_size) == n_points \div bin_size
Cmul(points, codebook, n_bins) ==
    [i \in DOMAIN points |-> LshScores(points[i], codebook, n_bins)]

(***************************************************************************)
(* SpecBins: the bin hashing of the two graph builders applied to events   *)
(* drawn from the bounded input sets.                                      *)
(***************************************************************************)
BinsInit ==
    /\ \E s \in Shapes :
          /\ X \in [Range0(s[1]) -> [Range0(s[2]) -> Coords]]
          /\ msk \in [Range0(s[1]) -> [Range0(s[2]) -> BOOLEAN]]
    /\ \E bs \in 1 .. MaxBinSize : config = [bin_size |-> bs]
    /\ \E cb \in Codebooks : weights = [codebook |-> cb]
    /\ pc = "start"
    /\ bins_split = None
    /\ dm = None
    /\ ret = None

\* SparseHashedNNDistance.construct_sparse_dm_batch up to the bin assignment,
\* mapped over the batch by SparseHashedNNDistance.call.
HashSparse ==
    /\ pc = "start"
    /\ LET n_bins == NBins(NPoints, config.bin_size)
           cmul == [b \in DOMAIN X |-> Cmul(X[b], weights.codebook, n_bins)]
       IN  /\ bins_split' = MapBatch([b \in DOMAIN X |->
                                split_indices_to_bins(cmul[b], n_bins, config.bin_size)])
           /\ ret' = IF LshWidth(n_bins) = 0 THEN None
                     ELSE [status |-> "ok", n_bins |-> n_bins,
                           bin_idx |-> [b \in DOMAIN X |-> SplitBinIdx(cmul[b])]]
    /\ pc' = "sparse"
    /\ UNCHANGED <<config, weights, X, msk, dm>>

\* GraphBuilderDense.call up to the bin assignment.
HashDense ==
    /\ pc = "start"
    /\ LET n_bins == NBins(NPoints, config.bin_size)
           cmul == [b \in DOMAIN X |-> Cmul(X[b], weights.codebook, n_bins)]
       IN  /\ bins_split' = split_indices_to_bins_batch(cmul, n_bins, config.bin_size, msk)
           /\ ret' = IF LshWidth(n_bins) = 0 THEN None
                     ELSE [status |-> "ok", n_bins |-> n_bins,
                           bin_idx |-> [b \in DOMAIN X |-> BatchBinIdx(cmul[b], n_bins, msk[b])]]
    /\ pc' = "dense"
    /\ UNCHANGED <<config, weights, X, msk, dm>>

BinsNext == HashSparse \/ HashDense

SpecBins == BinsInit /\ [][BinsNext]_vars

(***************************************************************************)
(* C3: whenever N is a multiple of bin_size, the bin assignment returned   *)
(* by split_indices_to_bins and split_indices_to_bins_batch holds          *)
(* N/bin_size bins of bin_size indices each, and every element index       *)
(* 0..N-1 occurs in exactly one place of it.                               *)
(***************************************************************************)
IsBinPermutation(bins, n, bin_size) ==
    /\ DOMAIN bins = Range0(n \div bin_size)
    /\ \A b \in DOMAIN bins : DOMAIN bins[b] = Range0(bin_size)
    /\ \A i \in Range0(n) :
          Cardinality({c \in (DOMAIN bins) \X Range0(bin_size) : bins[c[1]][c[2]] = i}) = 1

C3_BinsArePermutation ==
    (pc \in {"sparse", "dense"} /\ NPoints % config.bin_size = 0 /\ IsOk(bins_split))
        => \A b \in DOMAIN X :
              IsBinPermutation(bins_split.value[b], NPoints, config.bin_size)

C3_Witness ==
    /\ pc = "dense"
    /\ IsOk(bins_split)
    /\ NPoints = 2 * config.bin_size
    /\ \E i \in DOMAIN msk[0] : ~msk[0][i]
    /\ bins_split.value[0][0][0] # 0

(***************************************************************************)
(* C8: in the dense builder the bin index used for sorting (hash argmax    *)
(* plus mask offset) of a masked element differs from that of every valid  *)
(* element of the same batch entry, and in the sorted order every valid    *)
(* element precedes every masked element.                                  *)
(***************************************************************************)
FlatPos(bins, bin_size, i) ==
    CHOOSE q \in Range0(Cardinality(DOMAIN bins) * bin_size) :
        bins[q \div bin_size][q % bin_size] = i

C8_MaskedBinsDisjoint ==
    (pc = "dense" /\ IsOk(ret))
        => \A b \in DOMAIN X : \A i, j \in DOMAIN X[b] :
              (~msk[b][i] /\ msk[b][j])
                  => /\ ret.bin_idx[b][i] # ret.bin_idx[b][j]
                     /\ IsOk(bins_split)
                           => FlatPos(bins_split.value[b], config.bin_size, j)
                                 < FlatPos(bins_split.value[b], config.bin_size, i)

(***************************************************************************)
(* pairwise_gaussian_dist(A, B) for one bin, embeddings of width 1:        *)
(* D[i][j] = sqrt(max(na[i] - 2 A[i] B[j] + nb[j], 1e-6)).  The squares    *)
(* are in units of 1e-6, so that 1 is the 1e-6 of the source.              *)
(***************************************************************************)
pairwise_gaussian_dist(A, B) ==
    [i \in DOMAIN A |-> [j \in DOMAIN B |->
        ISqrt(Max(A[i] * A[i] - 2 * (A[i] * B[j]) + B[j] * B[j], 1))]]

\* tf.nn.top_k on one row: the indices of the k largest values, largest
\* first, the lower index first among equal values.
DescRank(row, j) ==
    Cardinality({i \in DOMAIN row : row[i] > row[j] \/ (row[i] = row[j] /\ i < j)})

\* Faulty variant: the k smallest values, smallest first.
top_k_indices_smallest(row, k) ==
    [r \in Range0(k) |->
        CHOOSE j \in DOMAIN row : DescRank(row, j) = Cardinality(DOMAIN row) - 1 - r]

top_k_indices(row, k) ==
    [r \in Range0(k) |-> CHOOSE j \in DOMAIN row : DescRank(row, j) = r]

(***************************************************************************)
(* SparseHashedNNDistance.subpoints_to_sparse_matrix(subindices,           *)
(* subpoints): subindices and subpoints are (nbins, bin_size).  dm is the  *)
(* similarity exp(-dist_mult * D) inside each bin, top its top_k indices.  *)
(* The result is the flat list of (src, dst) pairs and the flat list of    *)
(* their values, neighbour rank by neighbour rank.                         *)
(***************************************************************************)
SimilarityMatrix(cfg, subpoints) ==
    [b \in DOMAIN subpoints |->
        [i \in DOMAIN subpoints[b] |-> [j \in DOMAIN subpoints[b] |->
            Exp(0 - Mul(cfg.dist_mult,
                        pairwise_gaussian_dist(<<subpoints[b][i]>>, <<subpoints[b][j]>>)[1][1]))]]]

\* Faulty variant: the bin-local top_k index is taken for the destination
\* without the lookup in subindices.
SparsePairsLocalDst(cfg, subindices, sim, top) ==
    LET nelems == cfg.bin_size
        M == Cardinality(DOMAIN subindices) * nelems
        Bin(q) == (q % M) \div nelems
        Elem(q) == (q % M) % nelems
        Rnk(q) == q \div M
    IN  [inds |-> [q \in Range0(cfg.num_neighbors * M) |->
                      <<subindices[Bin(q)][Elem(q)], top[Bin(q)][Elem(q)][Rnk(q)]>>],
         vals |-> [q \in Range0(cfg.num_neighbors * M) |->
                      sim[Bin(q)][Elem(q)][top[Bin(q)][Elem(q)][Rnk(q)]]]]

SparsePairs(cfg, subindices, sim, top) ==
    LET nelems == cfg.bin_size
        M == Cardinality(DOMAIN subindices) * nelems
        Bin(q) == (q % M) \div nelems
        Elem(q) == (q % M) % nelems
        Rnk(q) == q \div M
    IN  [inds |-> [q \in Range0(cfg.num_neighbors * M) |->
                      <<subindices[Bin(q)][Elem(q)],
                        subindices[Bin(q)][top[Bin(q)][Elem(q)][Rnk(q)]]>>],
         vals |-> [q \in Range0(cfg.num_neighbors * M) |->
                      sim[Bin(q)][Elem(q)][top[Bin(q)][Elem(q)][Rnk(q)]]]]

subpoints_to_sparse_matrix(cfg, subindices, subpoints) ==
    IF cfg.num_neighbors > cfg.bin_size
    THEN Error("top_k: k exceeds the row length")
    ELSE LET sim == SimilarityMatrix(cfg, subpoints)
             top == [b \in DOMAIN sim |-> [e \in DOMAIN sim[b] |->
                        top_k_indices(sim[b][e], cfg.num_neighbors)]]
         IN  [status |-> "ok", value |-> SparsePairs(cfg, subindices, sim, top)]

(***************************************************************************)
(* SparseHashedNNDistance.call, second half: the per-event lists get the   *)
(* batch index, are concatenated into one sparse tensor and reordered      *)
(* (row-major), and the edge network refines the values.                   *)
(***************************************************************************)
SparseConcat(per) ==
    LET len == Cardinality(DOMAIN per[0].inds)
    IN  [p \in Range0(Cardinality(DOMAIN per) * len) |->
            [idx |-> <<p \div len, per[p \div len].inds[p % len][1],
                       per[p \div len].inds[p % len][2]>>,
             val |-> per[p \div len].vals[p % len]]]

sparse_reorder(entries, n_points) ==
    LET order == ArgSort([p \in DOMAIN entries |->
                    (entries[p].idx[1] * n_points + entries[p].idx[2]) * n_points
                        + entries[p].idx[3]])
    IN  [p \in DOMAIN entries |-> entries[order[p]]]

EdgeNet(w, inputs, entries) ==
    [p \in DOMAIN entries |->
        [idx |-> entries[p].idx,
         val |-> Sigmoid(point_wise_feed_forward_network(w, 1,
                    inputs[entries[p].idx[1]][entries[p].idx[2]]
                        \o inputs[entries[p].idx[1]][entries[p].idx[3]]
                        \o <<entries[p].val>>))]]

(***************************************************************************)
(* SpecSparse: SparseHashedNNDistance.call on batches drawn from the       *)
(* bounded input sets.  The call is followed position by position:         *)
(* layer_encoding, the bin hashing and the top-k of                        *)
(* construct_sparse_dm_batch (mapped over the batch), the assembly.        *)
(***************************************************************************)
MaxNeighbors == 3
MaxSparsePoints == 6
SparseShapes == Shapes \cup {s \in {1} \X (1 .. MaxSparsePoints) : TRUE}

SparseInit ==
    /\ \E s \in SparseShapes : X \in [Range0(s[1]) -> [Range0(s[2]) -> Coords]]
    /\ msk = None
    /\ \E bs \in 1 .. (MaxBinSize + 1), k \in 1 .. MaxNeighbors :
          config = [bin_size |-> bs, num_neighbors |-> k, dist_mult |-> 1000]
    /\ \E cb \in Codebooks : weights = [codebook |-> cb, kernel |-> -1000, bias |-> 500]
    /\ pc = "start"
    /\ bins_split = None
    /\ dm = None
    /\ ret = None

\* point_embedding = self.layer_encoding(inputs)
SparseEncode ==
    /\ pc = "start"
    /\ ret' = [status |-> "ok",
               point_embedding |-> [b \in DOMAIN X |-> [i \in DOMAIN X[b] |->
                    point_wise_feed_forward_network(weights, 1, <<X[b][i]>>)]]]
    /\ pc' = "encoded"
    /\ UNCHANGED <<config, weights, X, msk, bins_split, dm>>

\* construct_sparse_dm_batch up to bins_split, for every event of the batch.
SparseHash ==
    /\ pc = "encoded"
    /\ LET n_bins == NBins(NPoints, config.bin_size)
           bins == MapBatch([b \in DOMAIN X |->
                      split_indices_to_bins(
                          Cmul(ret.point_embedding[b], weights.codebook, n_bins),
                          n_bins, config.bin_size)])
       IN  /\ bins_split' = bins
           /\ pc' = IF IsOk(bins) THEN "binned" ELSE "raised"
    /\ UNCHANGED <<config, weights, X, msk, dm, ret>>

\* parts = tf.gather(points, bins_split) and subpoints_to_sparse_matrix, for
\* every event of the batch.
SparseTopK ==
    /\ pc = "binned"
    /\ LET per == MapBatch([b \in DOMAIN X |->
                      subpoints_to_sparse_matrix(config, bins_split.value[b],
                          [n \in DOMAIN bins_split.value[b] |->
                              [e \in DOMAIN bins_split.value[b][n] |->
                                  ret.point_embedding[b][bins_split.value[b][n][e]]]])])
       IN  /\ ret' = IF IsOk(per)
                     THEN [status |-> "ok", point_embedding |-> ret.point_embedding,
                           value |-> per.value]
                     ELSE per
           /\ pc' = IF IsOk(per) THEN "mapped" ELSE "raised"
    /\ UNCHANGED <<config, weights, X, msk, bins_split, dm>>

\* The sparse tensor, its reordering and the edge network.
SparseAssemble ==
    /\ pc = "mapped"
    /\ dm' = [status |-> "ok",
              value |-> EdgeNet(weights, [b \in DOMAIN X |-> [i \in DOMAIN X[b] |-> <<X[b][i]>>]],
                               sparse_reorder(SparseConcat(ret.value), NPoints))]
    /\ pc' = "done"
    /\ UNCHANGED <<config, weights, X, msk, bins_split, ret>>

SparseNext == SparseEncode \/ SparseHash \/ SparseTopK \/ SparseAssemble

SpecSparse == SparseInit /\ [][SparseNext]_vars

(***************************************************************************)
(* C5: in the adjacency returned by SparseHashedNNDistance.call every      *)
(* element of every event is the source of at most num_neighbors edges,    *)
(* no (event, source, destination) index occurs twice, and every           *)
(* destination lies in the bin of its source.                              *)
(***************************************************************************)
BinOf(bins, i) == CHOOSE b \in DOMAIN bins : \E e \in DOMAIN bins[b] : bins[b][e] = i

C5_AtMostKEdgesInBin ==
    pc = "done" =>
        /\ \A b \in DOMAIN X : \A i \in DOMAIN X[b] :
              Cardinality({p \in DOMAIN dm.value :
                              dm.value[p].idx[1] = b /\ dm.value[p].idx[2] = i})
                  <= config.num_neighbors
        /\ \A p, q \in DOMAIN dm.value :
              dm.value[p].idx = dm.value[q].idx => p = q
        /\ \A p \in DOMAIN dm.value :
              BinOf(bins_split.value[dm.value[p].idx[1]], dm.value[p].idx[2])
                  = BinOf(bins_split.value[dm.value[p].idx[1]], dm.value[p].idx[3])

C5_Witness ==
    /\ pc = "done"
    /\ config.num_neighbors = 2
    /\ NPoints = 2 * config.bin_size
    /\ \E p \in DOMAIN dm.value :
          /\ dm.value[p].idx[2] # dm.value[p].idx[3]
          /\ BinOf(bins_split.value[0], dm.value[p].idx[2]) = 1

(***************************************************************************)
(* C6: in the lists returned by subpoints_to_sparse_matrix, for every      *)
(* source element the value of its rank-r neighbour is at least that of    *)
(* its rank-(r+1) neighbour, and the value stored with each (source,       *)
(* destination) pair is the similarity of the embeddings of that pair.     *)
(***************************************************************************)
PairSimilarity(cfg, a, b) ==
    Exp(0 - Mul(cfg.dist_mult, pairwise_gaussian_dist(<<a>>, <<b>>)[1][1]))

C6_TopKSortedAndPaired ==
    (pc \in {"mapped", "done"}) =>
        \A b \in DOMAIN X :
            LET r == ret.value[b]
                M == NPoints
            IN  /\ \A q \in DOMAIN r.vals :
                      q + M \in DOMAIN r.vals =>
                          /\ r.inds[q][1] = r.inds[q + M][1]
                          /\ r.vals[q] >= r.vals[q + M]
                /\ \A q \in DOMAIN r.vals :
                      r.vals[q] = PairSimilarity(config,
                                      ret.point_embedding[b][r.inds[q][1]],
                                      ret.point_embedding[b][r.inds[q][2]])

C6_Witness ==
    /\ pc = "mapped"
    /\ config.num_neighbors = 3
    /\ \E q \in DOMAIN ret.value[0].vals :
          /\ q + 2 * NPoints \in DOMAIN ret.value[0].vals
          /\ ret.value[0].vals[q] > ret.value[0].vals[q + NPoints]
          /\ ret.value[0].vals[q + NPoints] > ret.value[0].vals[q + 2 * NPoints]
          /\ ret.value[0].inds[q][1] = 0
          /\ ret.value[0].inds[q + NPoints][2] = 2

(***************************************************************************)
(* tf.gather(x, bins_split, batch_dims=1): one batch entry, x indexed by   *)
(* element, the result by (bin, place).                                    *)
(***************************************************************************)
GatherBins(x, bins) ==
    [n \in DOMAIN bins |-> [e \in DOMAIN bins[n] |-> x[bins[n][e]]]]

(***************************************************************************)
(* reverse_lsh(bins_split, points_binned_enc): tf.scatter_nd into a zero   *)
(* tensor of shape (batch, n_points, n_features) at (batch index, element  *)
(* index); rows scattered to the same index add up.                        *)
(***************************************************************************)
ScatterRow(bins, pts, bin_size, i) ==
    SumSeq([q \in 1 .. (Cardinality(DOMAIN pts) * bin_size) |->
              IF bins[(q - 1) \div bin_size][(q - 1) % bin_size] = i
              THEN pts[(q - 1) \div bin_size][(q - 1) % bin_size]
              ELSE 0])

\* Faulty variant: a gather by the bin assignment in place of the scatter.
reverse_lsh_gather(bins, points_binned_enc) ==
    [b \in DOMAIN points_binned_enc |->
        LET bin_size == Cardinality(DOMAIN points_binned_enc[b][0])
            n_points == Cardinality(DOMAIN points_binned_enc[b]) * bin_size
        IN  [i \in Range0(n_points) |->
                LET t == bins[b][i \div bin_size][i % bin_size]
                IN  points_binned_enc[b][t \div bin_size][t % bin_size]]]

reverse_lsh(bins, points_binned_enc) ==
    [b \in DOMAIN points_binned_enc |->
        LET bin_size == Cardinality(DOMAIN points_binned_enc[b][0])
            n_points == Cardinality(DOMAIN points_binned_enc[b]) * bin_size
        IN  [i \in Range0(n_points) |->
                ScatterRow(bins[b], points_binned_enc[b], bin_size, i)]]

(***************************************************************************)
(* SpecScatter: reverse_lsh applied to the gather of a feature tensor      *)
(* (one feature per element) by a bin assignment drawn from the            *)
(* permutations of the element indices.                                    *)
(***************************************************************************)
Permutations0(n) ==
    {f \in [Range0(n) -> Range0(n)] : \A i, j \in Range0(n) : f[i] = f[j] => i = j}

BinsOfPermutation(f, n, bin_size) ==
    [b \in Range0(n \div bin_size) |-> [e \in Range0(bin_size) |-> f[b * bin_size + e]]]

ScatterInit ==
    /\ \E s \in Shapes : \E bs \in 1 .. s[2] :
          /\ s[2] % bs = 0
          /\ config = [bin_size |-> bs]
          /\ X \in [Range0(s[1]) -> [Range0(s[2]) -> Coords]]
          /\ \E fs \in [Range0(s[1]) -> Permutations0(s[2])] :
                bins_split = [status |-> "ok",
                              value |-> [b \in Range0(s[1]) |->
                                            BinsOfPermutation(fs[b], s[2], bs)]]
    /\ weights = None
    /\ msk = None
    /\ pc = "start"
    /\ dm = None
    /\ ret = None

ScatterGather ==
    /\ pc = "start"
    /\ ret' = [status |-> "ok",
               x_binned |-> [b \in DOMAIN X |-> GatherBins(X[b], bins_split.value[b])]]
    /\ pc' = "gathered"
    /\ UNCHANGED <<config, weights, X, msk, bins_split, dm>>

ScatterReverse ==
    /\ pc = "gathered"
    /\ ret' = [status |-> "ok", x_binned |-> ret.x_binned,
               enc |-> reverse_lsh(bins_split.value, ret.x_binned)]
    /\ pc' = "scattered"
    /\ UNCHANGED <<config, weights, X, msk, bins_split, dm>>

ScatterNext == ScatterGather \/ ScatterReverse

SpecScatter == ScatterInit /\ [][ScatterNext]_vars

(***************************************************************************)
(* C4: for a feature tensor X and a bin assignment that is a permutation   *)
(* of the element indices of every batch entry, reverse_lsh of the gather  *)
(* of X equals X, element for element.                                     *)
(***************************************************************************)
C4_ScatterUndoesGather ==
    pc = "scattered" => ret.enc = X

C4_Witness ==
    /\ pc = "scattered"
    /\ ret.enc = X
    /\ config.bin_size = 1
    /\ DOMAIN X[0] = Range0(3)
    /\ X[0] = [i \in Range0(3) |-> (i - 1) * 1000]
    /\ bins_split.value[0] = [n \in Range0(3) |-> [e \in Range0(1) |-> (n + 1) % 3]]

(***************************************************************************)
(* pairwise_learnable_dist(A, B, ffn) for one bin:                         *)
(* res[i][j] = ffn(concat(A[i], B[j])), one output channel.                *)
(***************************************************************************)
pairwise_learnable_dist(A, B, w) ==
    [i \in DOMAIN A |-> [j \in DOMAIN B |->
        point_wise_feed_forward_network(w, 2, <<A[i], B[j]>>)]]

(***************************************************************************)
(* GraphBuilderDense.call, the kernel branch.  The learnable kernel gives  *)
(* a tensor of rank 5 (batch, bin, elem, elem, channel), the gaussian      *)
(* kernel one of rank 4 (batch, bin, elem, elem); any other kernel name    *)
(* leaves dm unassigned.                                                   *)
(***************************************************************************)
DenseKernel(cfg, w, x_dist_binned) ==
    IF cfg.kernel = "learnable"
    THEN [status |-> "ok", rank |-> 5,
          value |-> [b \in DOMAIN x_dist_binned |-> [n \in DOMAIN x_dist_binned[b] |->
                       LET d == pairwise_learnable_dist(x_dist_binned[b][n],
                                                        x_dist_binned[b][n], w)
                       IN  [i \in DOMAIN d |-> [j \in DOMAIN d[i] |-> Elu(d[i][j])]]]]]
    ELSE IF cfg.kernel = "gaussian"
    THEN [status |-> "ok", rank |-> 4,
          value |-> [b \in DOMAIN x_dist_binned |-> [n \in DOMAIN x_dist_binned[b] |->
                       LET d == pairwise_gaussian_dist(x_dist_binned[b][n],
                                                       x_dist_binned[b][n])
                       IN  [i \in DOMAIN d |-> [j \in DOMAIN d[i] |->
                              clip_by_value(Exp(0 - Mul(cfg.dist_mult, d[i][j])),
                                            cfg.clip_value_low, 1000)]]]]]
    ELSE None

\* msk_f: the mask cast to the dtype of x_dist.
MskF(m) == IF m THEN 1000 ELSE 0

\* tf.einsum("abijk,abi->abijk", dm, msk) and tf.einsum("abijk,abj->abijk",
\* dm, msk) for one batch entry.
EinsumRows(d, m) ==
    [n \in DOMAIN d |-> [i \in DOMAIN d[n] |-> [j \in DOMAIN d[n][i] |->
        Mul(d[n][i][j], m[n][i])]]]

EinsumCols(d, m) ==
    [n \in DOMAIN d |-> [i \in DOMAIN d[n] |-> [j \in DOMAIN d[n][i] |->
        Mul(d[n][i][j], m[n][j])]]]

\* Faulty variant: the row-wise multiplication alone.
MaskAdjacencyRows(d, msk_f_binned) ==
    IF d.status = "none" THEN Error("dm referenced before assignment")
    ELSE IF d.rank # 5 THEN Error("einsum: rank of dm is not 5")
    ELSE [status |-> "ok",
          value |-> [b \in DOMAIN d.value |-> EinsumRows(d.value[b], msk_f_binned[b])]]

MaskAdjacency(d, msk_f_binned) ==
    IF d.status = "none" THEN Error("dm referenced before assignment")
    ELSE IF d.rank # 5 THEN Error("einsum: rank of dm is not 5")
    ELSE [status |-> "ok",
          value |-> [b \in DOMAIN d.value |->
                       EinsumCols(EinsumRows(d.value[b], msk_f_binned[b]),
                                  msk_f_binned[b])]]

(***************************************************************************)
(* SpecDense: GraphBuilderDense.call on embeddings, masks, bin sizes and   *)
(* kernels drawn from the bounded input sets.                              *)
(***************************************************************************)
Kernels == {"learnable", "gaussian", "sigmoid"}
FfnBiases == {-2000, 500}

DenseInit ==
    /\ \E s \in Shapes :
          /\ X \in [Range0(s[1]) -> [Range0(s[2]) -> Coords]]
          /\ msk \in [Range0(s[1]) -> [Range0(s[2]) -> BOOLEAN]]
    /\ \E bs \in 1 .. MaxBinSize : \E k \in Kernels :
          config = [bin_size |-> bs, kernel |-> k, dist_mult |-> 1000,
                    clip_value_low |-> 0]
    /\ \E cb \in Codebooks : \E bias \in FfnBiases :
          weights = [codebook |-> cb, kernel |-> 1000, bias |-> bias]
    /\ pc = "start"
    /\ bins_split = None
    /\ dm = None
    /\ ret = None

\* n_bins, cmul and bins_split.
DenseHash ==
    /\ pc = "start"
    /\ LET n_bins == NBins(NPoints, config.bin_size)
           cmul == [b \in DOMAIN X |-> Cmul(X[b], weights.codebook, n_bins)]
           bins == split_indices_to_bins_batch(cmul, n_bins, config.bin_size, msk)
       IN  /\ bins_split' = bins
           /\ pc' = IF IsOk(bins) THEN "binned" ELSE "raised"
           /\ ret' = IF IsOk(bins) THEN ret ELSE bins
    /\ UNCHANGED <<config, weights, X, msk, dm>>

\* The gathers by bins_split and the kernel branch.
DenseSimilarity ==
    /\ pc = "binned"
    /\ LET x_dist_binned == [b \in DOMAIN X |-> GatherBins(X[b], bins_split.value[b])]
       IN  /\ dm' = DenseKernel(config, weights, x_dist_binned)
           /\ ret' = [status |-> "ok",
                      x_dist_binned |-> x_dist_binned,
                      msk_f_binned |->
                          [b \in DOMAIN X |->
                              GatherBins([i \in DOMAIN msk[b] |-> MskF(msk[b][i])],
                                         bins_split.value[b])]]
    /\ pc' = "kernel"
    /\ UNCHANGED <<config, weights, X, msk, bins_split>>

DenseMask ==
    /\ pc = "kernel"
    /\ LET masked == MaskAdjacency(dm, ret.msk_f_binned)
       IN  /\ pc' = IF IsOk(masked) THEN "built" ELSE "raised"
           /\ ret' = IF IsOk(masked)
                     THEN [status |-> "ok", x_dist_binned |-> ret.x_dist_binned,
                           msk_f_binned |-> ret.msk_f_binned, dm |-> masked.value]
                     ELSE masked
    /\ UNCHANGED <<config, weights, X, msk, bins_split, dm>>

DenseNext == DenseHash \/ DenseSimilarity \/ DenseMask

SpecDense == DenseInit /\ [][DenseNext]_vars

(***************************************************************************)
(* C9: in the adjacency GraphBuilderDense.call returns, for every batch    *)
(* entry, bin and pair (i, j) of bin-local positions, the entry is zero    *)
(* whenever the element at position i or the element at position j is      *)
(* masked.                                                                 *)
(***************************************************************************)
C9_MaskedPairsAreZero ==
    pc = "built" =>
        \A b \in DOMAIN ret.dm : \A n \in DOMAIN ret.dm[b] :
            \A i, j \in DOMAIN ret.dm[b][n] :
                (~msk[b][bins_split.value[b][n][i]] \/ ~msk[b][bins_split.value[b][n][j]])
                    => ret.dm[b][n][i][j] = 0

\* A returned adjacency with a bin holding a valid and a masked element whose
\* kernel values were not zero before the masking.
C9_Witness ==
    /\ pc = "built"
    /\ \E b \in DOMAIN ret.dm : \E n \in DOMAIN ret.dm[b] :
          \E i, j \in DOMAIN ret.dm[b][n] :
              /\ msk[b][bins_split.value[b][n][i]]
              /\ ~msk[b][bins_split.value[b][n][j]]
              /\ dm.value[b][n][i][j] # 0
              /\ dm.value[b][n][j][i] # 0
              /\ dm.value[b][n][j][j] # 0
              /\ ret.dm[b][n][i][i] # 0
              /\ ret.dm[b][n][i][j] = 0
              /\ ret.dm[b][n][j][i] = 0
              /\ ret.dm[b][n][j][j] = 0

(***************************************************************************)
(* GHConvDense.call((x, adj, msk)) on one bin: x and msk by bin-local      *)
(* position, adj a matrix over the positions, one hidden and one output    *)
(* feature.  The degree is clipped to [0, 1000]; InvSqrt(d) is             *)
(* (d + 1e-6) ** -0.5, which is 1e3 at degree 0.                           *)
(***************************************************************************)
Abs(v) == IF v < 0 THEN 0 - v ELSE v

InvSqrt(d) == IF d = 0 THEN 1000000 ELSE ISqrt(1000000000 \div d)

InDegrees(adj) ==
    [i \in DOMAIN adj |->
        clip_by_value(SumSeq([q \in 1 .. Cardinality(DOMAIN adj[i]) |-> Abs(adj[i][q - 1])]),
                      0, 1000000)]

GHConvDenseCall(cfg, w, x, adj, m) ==
    LET n == Cardinality(DOMAIN x)
        norm == [i \in DOMAIN x |-> Mul(InvSqrt(InDegrees(adj)[i]), m[i])]
        f_hom0 == [i \in DOMAIN x |-> Mul(Mul(Mul(x[i], m[i]), w.theta), m[i])]
        f_hom == [i \in DOMAIN x |->
                    IF cfg.normalize_degrees
                    THEN Mul(SumSeq([q \in 1 .. n |->
                                       Mul(adj[i][q - 1], Mul(f_hom0[q - 1], norm[q - 1]))]),
                             norm[i])
                    ELSE SumSeq([q \in 1 .. n |-> Mul(adj[i][q - 1], f_hom0[q - 1])])]
        f_het == [i \in DOMAIN x |-> Mul(Mul(x[i], m[i]), w.W_h)]
        gate == [i \in DOMAIN x |-> Sigmoid(Mul(x[i], w.W_t) + w.b_t)]
    IN  [i \in DOMAIN x |->
            Mul(Elu(Mul(gate[i], f_hom[i]) + Mul(1000 - gate[i], f_het[i])), m[i])]

(***************************************************************************)
(* GHConv.call((x, adj)) for one batch entry b: adj is the sparse tensor   *)
(* as its list of entries, x the feature of each element.  in_degrees is   *)
(* tf.sparse.reduce_sum(tf.abs(adj), axis=-1), not clipped.                *)
(***************************************************************************)
InRow(entry, b, i) == entry.idx[1] = b /\ entry.idx[2] = i

\* Faulty variant: the row sums of adj without the absolute value.
SparseInDegreesSigned(x, entries, b) ==
    [i \in DOMAIN x |->
        SumSeq([q \in 1 .. Cardinality(DOMAIN entries) |->
                   IF InRow(entries[q - 1], b, i) THEN entries[q - 1].val ELSE 0])]

SparseInDegrees(x, entries, b) ==
    [i \in DOMAIN x |->
        SumSeq([q \in 1 .. Cardinality(DOMAIN entries) |->
                   IF InRow(entries[q - 1], b, i) THEN Abs(entries[q - 1].val) ELSE 0])]

GHConvCall(w, x, entries, b) ==
    LET len == Cardinality(DOMAIN entries)
        in_degrees == SparseInDegrees(x, entries, b)
        norm == [i \in DOMAIN x |-> InvSqrt(in_degrees[i])]
        f_hom0 == [i \in DOMAIN x |-> Mul(x[i], w.theta)]
        f_hom == [i \in DOMAIN x |->
                     Mul(SumSeq([q \in 1 .. len |->
                                    IF InRow(entries[q - 1], b, i)
                                    THEN Mul(entries[q - 1].val,
                                             Mul(f_hom0[entries[q - 1].idx[3]],
                                                 norm[entries[q - 1].idx[3]]))
                                    ELSE 0]),
                         norm[i])]
        f_het == [i \in DOMAIN x |-> Mul(x[i], w.W_h)]
        gate == [i \in DOMAIN x |-> Sigmoid(Mul(x[i], w.W_t) + w.b_t)]
    IN  [i \in DOMAIN x |-> Elu(Mul(gate[i], f_hom[i]) + Mul(1000 - gate[i], f_het[i]))]

\* in_degrees + 1e-6, the base of tf.pow(..., -0.5), in units of 1e-6.
DegreeBase(d) == d * 1000 + 1

(***************************************************************************)
(* MPNNNodeFunction.call((x, adj, msk)) on one bin: adj has one channel,   *)
(* avg_message is the mean of adj over its second position axis.          *)
(***************************************************************************)
MPNNAvgMessage(x, adj) ==
    LET n == Cardinality(DOMAIN x)
    IN  [i \in DOMAIN x |-> SumSeq([q \in 1 .. n |-> adj[i][q - 1]]) \div n]

MPNNNodeFunctionCall(cfg, w, x, adj, m) ==
    LET avg_message == MPNNAvgMessage(x, adj)
        x2 == [i \in DOMAIN x |-> <<Mul(x[i], m[i]), Mul(avg_message[i], m[i])>>]
    IN  [i \in DOMAIN x |-> point_wise_feed_forward_network(w, cfg.num_layers, x2[i])]

(***************************************************************************)
(* SpecConv: one convolution block called on one bin with features,        *)
(* adjacency and mask drawn from the bounded input sets.  X is the         *)
(* feature of each position of the bin, dm the adjacency, msk the mask.    *)
(***************************************************************************)
AdjVals == {-1000, 0, 500}
ConvTypes == {"GHConvDense", "MPNNNodeFunction"}

\* The adjacency of the bin as the entry list of a sparse tensor with one
\* batch entry, every position stored.
SparseOfDense(adj) ==
    LET n == Cardinality(DOMAIN adj)
    IN  [p \in Range0(n * n) |->
            [idx |-> <<0, p \div n, p % n>>, val |-> adj[p \div n][p % n]]]

ConvInit ==
    /\ \E n \in 1 .. MaxBinSize :
          /\ X \in [Range0(n) -> Coords]
          /\ msk \in [Range0(n) -> BOOLEAN]
          /\ \E a \in [Range0(n) -> [Range0(n) -> AdjVals]] :
                dm = [status |-> "ok", value |-> a]
          /\ \E t \in ConvTypes \cup {"GHConv"} : \E nd \in BOOLEAN : \E nl \in 1 .. 2 :
                config = [type |-> t, bin_size |-> n, normalize_degrees |-> nd,
                          num_layers |-> nl]
    /\ \E bias \in {0, 500} :
          weights = [kernel |-> 1000, bias |-> bias, theta |-> 500, W_h |-> 1000,
                     W_t |-> 1000, b_t |-> bias]
    /\ pc = "start"
    /\ bins_split = None
    /\ ret = None

ConvGHConvDense ==
    /\ pc = "start"
    /\ config.type = "GHConvDense"
    /\ ret' = [status |-> "ok",
               in_degrees |-> IF config.normalize_degrees THEN InDegrees(dm.value)
                              ELSE <<>>,
               value |-> GHConvDenseCall(config, weights, X, dm.value,
                                         [i \in DOMAIN msk |-> MskF(msk[i])])]
    /\ pc' = "done"
    /\ UNCHANGED <<config, weights, X, msk, bins_split, dm>>

ConvMPNNNodeFunction ==
    /\ pc = "start"
    /\ config.type = "MPNNNodeFunction"
    /\ ret' = [status |-> "ok",
               avg_message |-> MPNNAvgMessage(X, dm.value),
               value |-> MPNNNodeFunctionCall(config, weights, X, dm.value,
                                              [i \in DOMAIN msk |-> MskF(msk[i])])]
    /\ pc' = "done"
    /\ UNCHANGED <<config, weights, X, msk, bins_split, dm>>

\* GHConv.call, the block of PFNet, on the same bin taken as a sparse tensor.
ConvGHConv ==
    /\ pc = "start"
    /\ config.type = "GHConv"
    /\ ret' = [status |-> "ok",
               in_degrees |-> SparseInDegrees(X, SparseOfDense(dm.value), 0),
               value |-> GHConvCall(weights, X, SparseOfDense(dm.value), 0)]
    /\ pc' = "done"
    /\ UNCHANGED <<config, weights, X, msk, bins_split, dm>>

ConvNext == ConvGHConvDense \/ ConvMPNNNodeFunction \/ ConvGHConv

SpecConv == ConvInit /\ [][ConvNext]_vars

(***************************************************************************)
(* C7: for both convolution blocks, GHConvDense and MPNNNodeFunction, the  *)
(* output row of every masked node is zero, whatever the features and the  *)
(* adjacency.                                                              *)
(***************************************************************************)
C7_MaskedRowsAreZero ==
    (pc = "done" /\ config.type \in ConvTypes)
        => \A i \in DOMAIN msk : ~msk[i] => ret.value[i] = 0

(***************************************************************************)
(* InputEncoding.call on one element row X[b][i] = <<type, property>>:     *)
(* the one-hot code of the type cast to an integer, then the other         *)
(* features.                                                               *)
(***************************************************************************)
one_hot(index, depth) == [c \in 1 .. depth |-> IF index = c - 1 THEN 1000 ELSE 0]

InputEncoding(cfg, row) == one_hot(row[1] \div 1000, cfg.num_input_classes) \o Tail(row)

\* msk = X[:, :, 0] != 0
InputMask(x) == [b \in DOMAIN x |-> [i \in DOMAIN x[b] |-> x[b][i][1] # 0]]

\* tf.nn.softmax along the class axis.
MaxOf(xs) == CHOOSE v \in {xs[c] : c \in DOMAIN xs} : \A c \in DOMAIN xs : xs[c] <= v

Softmax(logits) ==
    LET e == [c \in DOMAIN logits |-> Exp(logits[c] - MaxOf(logits))]
    IN  [c \in DOMAIN logits |-> (e[c] * 1000) \div SumSeq(e)]

\* The rows of a (batch, N, features) tensor multiplied by msk_input.
MaskRow(row, m) == [c \in DOMAIN row |-> Mul(row[c], MskF(m))]

\* tf.reduce_sum(enc, axis=-2) / tf.cast(tf.shape(X)[1], X.dtype) for one
\* batch entry.
GraphSum(enc) ==
    SumSeq([q \in 1 .. Cardinality(DOMAIN enc) |-> enc[q - 1]]) \div Cardinality(DOMAIN enc)

(***************************************************************************)
(* The heads of a top-level model.  Output unit c of the class head has    *)
(* the bias w.bias + w.cls_bias[c].                                        *)
(***************************************************************************)
ClassHead(cfg, w, num_layers, row) ==
    [c \in 1 .. cfg.num_output_classes |->
        point_wise_feed_forward_network(w, num_layers, row) + w.cls_bias[c]]

\* The mapping PFNetDense.call and PFNet.call build for multi_output.
NamedOutputs(cls, charge, pred_momentum, pt, energy) ==
    [cls |-> cls, charge |-> charge, pt |-> pt,
     eta |-> [b \in DOMAIN charge |-> [i \in DOMAIN charge[b] |-> pred_momentum[b][i][2]]],
     sin_phi |-> [b \in DOMAIN charge |-> [i \in DOMAIN charge[b] |-> pred_momentum[b][i][3]]],
     cos_phi |-> [b \in DOMAIN charge |-> [i \in DOMAIN charge[b] |-> pred_momentum[b][i][4]]],
     energy |-> energy]

\* tf.concat of the named outputs along the feature axis.
ConcatOutputs(named) ==
    [b \in DOMAIN named.charge |-> [i \in DOMAIN named.charge[b] |->
        named.cls[b][i] \o <<named.charge[b][i], named.pt[b][i], named.eta[b][i],
                             named.sin_phi[b][i], named.cos_phi[b][i],
                             named.energy[b][i]>>]]

(***************************************************************************)
(* PFNetDense.call, the decoding: graph_sum, the class and charge heads,   *)
(* the momentum heads with momentum_mult, the clipping and the             *)
(* exponential.  enc_id and enc_reg are the last encodings of the two      *)
(* graph-layer stacks (skip_connection off, regression_use_classification  *)
(* on, separate_momentum on, focal_loss_from_logits off).                  *)
(***************************************************************************)
PFNetDenseLogits(cfg, w, m, enc_id) ==
    [b \in DOMAIN enc_id |-> [i \in DOMAIN enc_id[b] |->
        MaskRow(ClassHead(cfg, w, 4,
                    MaskRow(<<enc_id[b][i], GraphSum(enc_id[b])>>, m[b][i])), m[b][i])]]

\* Faulty variant: the charge without the clipping.
PFNetDenseChargeUnclipped(cfg, w, m, enc_id) ==
    [b \in DOMAIN enc_id |-> [i \in DOMAIN enc_id[b] |->
        Mul(point_wise_feed_forward_network(w, 2,
                MaskRow(<<enc_id[b][i], GraphSum(enc_id[b])>>, m[b][i])),
            MskF(m[b][i]))]]

PFNetDenseCharge(cfg, w, m, enc_id) ==
    [b \in DOMAIN enc_id |-> [i \in DOMAIN enc_id[b] |->
        clip_by_value(
            Mul(point_wise_feed_forward_network(w, 2,
                    MaskRow(<<enc_id[b][i], GraphSum(enc_id[b])>>, m[b][i])),
                MskF(m[b][i])),
            -2000, 2000)]]

PFNetDenseMomentum(cfg, w, m, out_id_logits, enc_reg) ==
    [b \in DOMAIN enc_reg |-> [i \in DOMAIN enc_reg[b] |->
        LET dec_output_reg == MaskRow(out_id_logits[b][i]
                                        \o <<enc_reg[b][i], GraphSum(enc_reg[b])>>,
                                      m[b][i])
        IN  [k \in 1 .. cfg.num_momentum_outputs |->
                Mul(w.momentum_mult[k],
                    Mul(point_wise_feed_forward_network(w, 4, dec_output_reg),
                        MskF(m[b][i])))]]]

PFNetDenseOutputs(cfg, out_id_logits, out_charge, pred_momentum) ==
    NamedOutputs(
        [b \in DOMAIN out_charge |-> [i \in DOMAIN out_charge[b] |->
            LET p == Softmax(out_id_logits[b][i])
            IN  [c \in DOMAIN p |-> clip_by_value(p[c], 0, 1000)]]],
        out_charge, pred_momentum,
        [b \in DOMAIN out_charge |-> [i \in DOMAIN out_charge[b] |->
            Exp(clip_by_value(pred_momentum[b][i][1], -6000, 8000))]],
        [b \in DOMAIN out_charge |-> [i \in DOMAIN out_charge[b] |->
            Exp(clip_by_value(pred_momentum[b][i][5], -6000, 8000))]])

(***************************************************************************)
(* CombinedGraphLayer.call, first half (layernorm off): x_dist =           *)
(* ffn_dist(x), then GraphBuilderDense.call(x_dist, x, msk) as a whole.    *)
(* x is the (batch, N) tensor of element encodings, one feature wide.      *)
(***************************************************************************)
GraphBuilderDenseCall(cfg, w, x_dist, x_features, m) ==
    LET n_bins == NBins(Cardinality(DOMAIN x_dist[0]), cfg.bin_size)
        cmul == [b \in DOMAIN x_dist |-> Cmul(x_dist[b], w.codebook, n_bins)]
        bins == split_indices_to_bins_batch(cmul, n_bins, cfg.bin_size, m)
    IN  IF ~IsOk(bins) THEN bins
        ELSE LET msk_f_binned ==
                     [b \in DOMAIN m |->
                         GatherBins([i \in DOMAIN m[b] |-> MskF(m[b][i])], bins.value[b])]
                 masked == MaskAdjacency(
                               DenseKernel(cfg, w,
                                   [b \in DOMAIN x_dist |->
                                       GatherBins(x_dist[b], bins.value[b])]),
                               msk_f_binned)
             IN  IF ~IsOk(masked) THEN masked
                 ELSE [status |-> "ok", bins |-> bins.value,
                       x_binned |-> [b \in DOMAIN x_features |->
                                        GatherBins(x_features[b], bins.value[b])],
                       dm |-> masked.value, msk_binned |-> msk_f_binned]

CombinedGraphLayerDist(cfg, w, x, m) ==
    GraphBuilderDenseCall(cfg, w,
        [b \in DOMAIN x |-> [i \in DOMAIN x[b] |->
            point_wise_feed_forward_network(w, 1, <<x[b][i]>>)]],
        x, m)

(***************************************************************************)
(* CombinedGraphLayer.call, second half (dropout off): the num_conv        *)
(* convolutions on the binned features, then reverse_lsh.  The adjacency   *)
(* the builder returns has rank 5; GHConvDense multiplies it as a matrix   *)
(* over the bin positions, which the shapes do not allow.                  *)
(***************************************************************************)
RECURSIVE ConvStack(_, _, _, _, _)
ConvStack(cfg, w, num_conv, x_binned, built) ==
    IF num_conv = 0 THEN x_binned
    ELSE ConvStack(cfg, w, num_conv - 1,
            [b \in DOMAIN x_binned |-> [n \in DOMAIN x_binned[b] |->
                MPNNNodeFunctionCall(cfg, w, x_binned[b][n], built.dm[b][n],
                                     built.msk_binned[b][n])]],
            built)

CombinedGraphLayerConv(cfg, w, built) ==
    IF cfg.type = "GHConvDense"
    THEN Error("GHConvDense: shapes of adj of rank 5 and the features do not match")
    ELSE [status |-> "ok", bins |-> built.bins, dm |-> built.dm,
          enc |-> reverse_lsh(built.bins,
                              ConvStack(cfg, w, cfg.num_conv, built.x_binned, built))]

(***************************************************************************)
(* DummyNet.call: the three heads on the encoded input; the result is the  *)
(* concatenation of the logits, the charge and the momentum.               *)
(***************************************************************************)
DummyNetCall(cfg, w, x) ==
    [b \in DOMAIN x |-> [i \in DOMAIN x[b] |->
        LET enc == InputEncoding(cfg, x[b][i])
            msk_input == MskF(x[b][i][1] # 0)
            out_id_logits == ClassHead(cfg, w, 1, enc)
            out_charge == Mul(point_wise_feed_forward_network(w, 1, enc), msk_input)
            pred_momentum == [k \in 1 .. cfg.num_momentum_outputs |->
                                 Mul(point_wise_feed_forward_network(w, 1,
                                         enc \o out_id_logits), msk_input)]
        IN  out_id_logits \o <<out_charge>> \o pred_momentum]]

(***************************************************************************)
(* SpecNet: the forward pass of the three top-level models on input        *)
(* batches, configurations and weights drawn from the bounded sets.  X is  *)
(* the input tensor, a row <<type, property>> per element.                 *)
(***************************************************************************)
NetRows == {<<0, 0>>, <<1000, 0>>, <<1000, 1000>>}
NetModels == {"PFNetDense", "PFNet", "DummyNet"}
MomentumMults == {1000, 20000, -20000}
NetBiases == {500, 9000, -9000}

NetInit ==
    /\ \E s \in Shapes : X \in [Range0(s[1]) -> [Range0(s[2]) -> NetRows]]
    /\ \E model \in NetModels, bs \in 1 .. MaxBinSize, k \in Kernels, t \in ConvTypes,
          nn \in 1 .. 2, mo \in BOOLEAN :
          /\ model = "PFNetDense" => nn = 1
          /\ model = "PFNet" => (k = "gaussian" /\ t = "GHConvDense")
          /\ model = "DummyNet" => (bs = 1 /\ k = "gaussian" /\ t = "GHConvDense"
                                      /\ nn = 1 /\ ~mo)
          /\ config = [model |-> model, multi_output |-> mo, num_input_classes |-> 2,
                       num_output_classes |-> 2, num_momentum_outputs |-> 5,
                       bin_size |-> bs, dist_mult |-> 1000, clip_value_low |-> 0,
                       kernel |-> k, type |-> t, num_layers |-> 1, num_conv |-> 2,
                       normalize_degrees |-> TRUE, num_neighbors |-> nn]
          /\ \E cb \in Codebooks, mm \in MomentumMults, bias \in NetBiases :
                /\ \A j \in DOMAIN cb : cb[j] = 1000
                /\ model = "PFNetDense" => bias = 500
                /\ model # "PFNetDense" => mm = 1000
                /\ model = "DummyNet" => bias = 500
                /\ weights = [codebook |-> cb, kernel |-> 1000, bias |-> bias,
                              cls_bias |-> <<0, 300>>,
                              momentum_mult |-> [q \in 1 .. 5 |-> mm],
                              theta |-> 500, W_h |-> 1000, W_t |-> 1000, b_t |-> 500]
    /\ msk = None
    /\ pc = "start"
    /\ bins_split = None
    /\ dm = None
    /\ ret = None

NetDummyNet ==
    /\ pc = "start"
    /\ config.model = "DummyNet"
    /\ msk' = InputMask(X)
    /\ ret' = [status |-> "ok", out |-> DummyNetCall(config, weights, X)]
    /\ pc' = "done"
    /\ UNCHANGED <<config, weights, X, bins_split, dm>>

\* msk, enc, enc_id and enc_reg of PFNetDense.call.
NetDenseEncode ==
    /\ pc = "start"
    /\ config.model = "PFNetDense"
    /\ msk' = InputMask(X)
    /\ ret' = [status |-> "ok",
               enc_id |-> [b \in DOMAIN X |-> [i \in DOMAIN X[b] |->
                             Elu(point_wise_feed_forward_network(weights, 1,
                                    InputEncoding(config, X[b][i])))]],
               enc_reg |-> [b \in DOMAIN X |-> [i \in DOMAIN X[b] |->
                              Elu(point_wise_feed_forward_network(weights, 1,
                                     InputEncoding(config, X[b][i])))]]]
    /\ pc' = "encoded"
    /\ UNCHANGED <<config, weights, X, bins_split, dm>>

\* The graph layer of cg_id, up to the adjacency.
NetDenseGraphId ==
    /\ pc = "encoded"
    /\ LET built == CombinedGraphLayerDist(config, weights, ret.enc_id, msk)
       IN  /\ dm' = built
           /\ pc' = IF IsOk(built) THEN "graph_id" ELSE "raised"
           /\ bins_split' = IF IsOk(built) THEN [status |-> "ok", value |-> built.bins]
                            ELSE bins_split
    /\ UNCHANGED <<config, weights, X, msk, ret>>

\* The convolutions and reverse_lsh of the graph layer of cg_id.
NetDenseConvId ==
    /\ pc = "graph_id"
    /\ LET all == CombinedGraphLayerConv(config, weights, dm)
       IN  /\ ret' = IF IsOk(all) THEN [enc_id |-> all.enc] @@ ret ELSE all
           /\ pc' = IF IsOk(all) THEN "conv_id" ELSE "raised"
    /\ UNCHANGED <<config, weights, X, msk, bins_split, dm>>

\* The graph layer of cg_reg, up to the adjacency.
NetDenseGraphReg ==
    /\ pc = "conv_id"
    /\ LET built == CombinedGraphLayerDist(config, weights, ret.enc_reg, msk)
       IN  /\ dm' = built
           /\ pc' = IF IsOk(built) THEN "graph_reg" ELSE "raised"
           /\ bins_split' = IF IsOk(built) THEN [status |-> "ok", value |-> built.bins]
                            ELSE bins_split
    /\ UNCHANGED <<config, weights, X, msk, ret>>

\* The convolutions and reverse_lsh of the graph layer of cg_reg.
NetDenseConvReg ==
    /\ pc = "graph_reg"
    /\ LET all == CombinedGraphLayerConv(config, weights, dm)
       IN  /\ ret' = IF IsOk(all) THEN [enc_reg |-> all.enc] @@ ret ELSE all
           /\ pc' = IF IsOk(all) THEN "conv_reg" ELSE "raised"
    /\ UNCHANGED <<config, weights, X, msk, bins_split, dm>>

\* The class and charge heads.
NetDenseHeadsId ==
    /\ pc = "conv_reg"
    /\ ret' = [graph_sum |-> [b \in DOMAIN X |-> GraphSum(ret.enc_id[b])],
               out_id_logits |-> PFNetDenseLogits(config, weights, msk, ret.enc_id),
               out_charge |-> PFNetDenseCharge(config, weights, msk, ret.enc_id)] @@ ret
    /\ pc' = "heads_id"
    /\ UNCHANGED <<config, weights, X, msk, bins_split, dm>>

\* The momentum heads and the returned outputs.
NetDenseHeadsReg ==
    /\ pc = "heads_id"
    /\ config.model = "PFNetDense"
    /\ LET pred_momentum == PFNetDenseMomentum(config, weights, msk,
                                               ret.out_id_logits, ret.enc_reg)
           named == PFNetDenseOutputs(config, ret.out_id_logits, ret.out_charge,
                                      pred_momentum)
       IN  ret' = [status |-> "ok", pred_momentum |-> pred_momentum,
                   out_id_logits |-> ret.out_id_logits, out_charge |-> ret.out_charge,
                   out |-> IF config.multi_output THEN named ELSE ConcatOutputs(named)]
    /\ pc' = "done"
    /\ UNCHANGED <<config, weights, X, msk, bins_split, dm>>

(***************************************************************************)
(* EncoderDecoderGNN.call(inputs, distance_matrix): one encoding layer,    *)
(* one GHConv, one decoding layer (dropout off).                           *)
(***************************************************************************)
EncoderDecoderGNN(w, inputs, entries) ==
    [b \in DOMAIN inputs |->
        LET conv == GHConvCall(w, [i \in DOMAIN inputs[b] |->
                                      Elu(DenseUnit(w, inputs[b][i]))], entries, b)
        IN  [i \in DOMAIN inputs[b] |-> Elu(DenseUnit(w, <<conv[i]>>))]]

(***************************************************************************)
(* PFNet.call, the heads (skip_connection off).                            *)
(***************************************************************************)
PFNetLogits(cfg, w, m, x_id) ==
    [b \in DOMAIN x_id |-> [i \in DOMAIN x_id[b] |->
        MaskRow(ClassHead(cfg, w, 3, <<x_id[b][i]>>), m[b][i])]]

PFNetCharge(cfg, w, m, x_id) ==
    [b \in DOMAIN x_id |-> [i \in DOMAIN x_id[b] |->
        clip_by_value(Mul(point_wise_feed_forward_network(w, 3, <<x_id[b][i]>>),
                          MskF(m[b][i])),
                      -2000, 2000)]]

PFNetMomentum(cfg, w, m, out_id_logits, x_reg) ==
    [b \in DOMAIN x_reg |-> [i \in DOMAIN x_reg[b] |->
        [k \in 1 .. cfg.num_momentum_outputs |->
            Mul(point_wise_feed_forward_network(w, 3,
                    out_id_logits[b][i] \o <<x_reg[b][i]>>),
                MskF(m[b][i]))]]]

PFNetSoftmax(out_id_logits) ==
    [b \in DOMAIN out_id_logits |-> [i \in DOMAIN out_id_logits[b] |->
        LET p == Softmax(out_id_logits[b][i])
        IN  [c \in DOMAIN p |-> clip_by_value(p[c], 0, 1000)]]]

PFNetOutputs(cfg, out_id_logits, out_charge, pred_momentum) ==
    IF cfg.multi_output
    THEN NamedOutputs(PFNetSoftmax(out_id_logits), out_charge, pred_momentum,
            [b \in DOMAIN out_charge |-> [i \in DOMAIN out_charge[b] |->
                Exp(clip_by_value(pred_momentum[b][i][1], -4000, 4000))]],
            [b \in DOMAIN out_charge |-> [i \in DOMAIN out_charge[b] |->
                Exp(clip_by_value(pred_momentum[b][i][5], -5000, 6000))]])
    ELSE [b \in DOMAIN out_charge |-> [i \in DOMAIN out_charge[b] |->
            PFNetSoftmax(out_id_logits)[b][i] \o <<out_charge[b][i]>>
                \o pred_momentum[b][i]]]

\* msk_input, enc and the point embedding of self.dist.
NetSparseEncode ==
    /\ pc = "start"
    /\ config.model = "PFNet"
    /\ msk' = InputMask(X)
    /\ ret' = [status |-> "ok",
               enc |-> [b \in DOMAIN X |-> [i \in DOMAIN X[b] |->
                          InputEncoding(config, X[b][i])]],
               point_embedding |-> [b \in DOMAIN X |-> [i \in DOMAIN X[b] |->
                          point_wise_feed_forward_network(weights, 1,
                              InputEncoding(config, X[b][i]))]]]
    /\ pc' = "embedded"
    /\ UNCHANGED <<config, weights, X, bins_split, dm>>

\* construct_sparse_dm_batch up to bins_split, for every event of the batch.
NetSparseHash ==
    /\ pc = "embedded"
    /\ LET n_bins == NBins(NPoints, config.bin_size)
           bins == MapBatch([b \in DOMAIN X |->
                      split_indices_to_bins(
                          Cmul(ret.point_embedding[b], weights.codebook, n_bins),
                          n_bins, config.bin_size)])
       IN  /\ bins_split' = bins
           /\ ret' = IF IsOk(bins) THEN ret ELSE bins
           /\ pc' = IF IsOk(bins) THEN "binned" ELSE "raised"
    /\ UNCHANGED <<config, weights, X, msk, dm>>

\* parts = tf.gather(points, bins_split) and subpoints_to_sparse_matrix, for
\* every event of the batch.
NetSparseTopK ==
    /\ pc = "binned"
    /\ LET per == MapBatch([b \in DOMAIN X |->
                      subpoints_to_sparse_matrix(config, bins_split.value[b],
                          GatherBins(ret.point_embedding[b], bins_split.value[b]))])
       IN  /\ ret' = IF IsOk(per) THEN [value |-> per.value] @@ ret ELSE per
           /\ pc' = IF IsOk(per) THEN "mapped" ELSE "raised"
    /\ UNCHANGED <<config, weights, X, msk, bins_split, dm>>

\* The sparse tensor, its reordering and the edge network.
NetSparseAssemble ==
    /\ pc = "mapped"
    /\ dm' = [status |-> "ok",
              value |-> EdgeNet(weights, ret.enc,
                                sparse_reorder(SparseConcat(ret.value), NPoints))]
    /\ pc' = "graph"
    /\ UNCHANGED <<config, weights, X, msk, bins_split, ret>>

\* gnn_id and the class and charge heads.
NetSparseHeadsId ==
    /\ pc = "graph"
    /\ LET x_id == EncoderDecoderGNN(weights, ret.enc, dm.value)
       IN  ret' = [out_id_logits |-> PFNetLogits(config, weights, msk, x_id),
                   out_charge |-> PFNetCharge(config, weights, msk, x_id)] @@ ret
    /\ pc' = "heads_id"
    /\ UNCHANGED <<config, weights, X, msk, bins_split, dm>>

\* gnn_reg, the momentum head and the returned outputs.
NetSparseRegression ==
    /\ pc = "heads_id"
    /\ config.model = "PFNet"
    /\ ret' = [x_reg |-> EncoderDecoderGNN(weights,
                            [b \in DOMAIN X |-> [i \in DOMAIN X[b] |->
                                ret.enc[b][i] \o ret.out_id_logits[b][i]]],
                            dm.value)] @@ ret
    /\ pc' = "regression"
    /\ UNCHANGED <<config, weights, X, msk, bins_split, dm>>

NetSparseHeadsReg ==
    /\ pc = "regression"
    /\ LET pred_momentum == PFNetMomentum(config, weights, msk, ret.out_id_logits,
                                          ret.x_reg)
       IN  ret' = [status |-> "ok", pred_momentum |-> pred_momentum,
                   out_id_logits |-> ret.out_id_logits, out_charge |-> ret.out_charge,
                   out |-> PFNetOutputs(config, ret.out_id_logits, ret.out_charge,
                                        pred_momentum)]
    /\ pc' = "done"
    /\ UNCHANGED <<config, weights, X, msk, bins_split, dm>>

NetNext ==
    \/ NetDummyNet
    \/ NetDenseEncode
    \/ NetDenseGraphId
    \/ NetDenseConvId
    \/ NetDenseGraphReg
    \/ NetDenseConvReg
    \/ NetDenseHeadsId
    \/ NetDenseHeadsReg
    \/ NetSparseEncode
    \/ NetSparseHash
    \/ NetSparseTopK
    \/ NetSparseAssemble
    \/ NetSparseHeadsId
    \/ NetSparseRegression
    \/ NetSparseHeadsReg

SpecNet == NetInit /\ [][NetNext]_vars

\* The values a returned output holds for element i of batch entry b: the
\* fields of the mapping, or the row of the concatenated tensor.
ElementOutputs(b, i) ==
    IF config.multi_output
    THEN {ret.out.cls[b][i][c] : c \in DOMAIN ret.out.cls[b][i]}
            \cup {ret.out.charge[b][i], ret.out.pt[b][i], ret.out.eta[b][i],
                  ret.out.sin_phi[b][i], ret.out.cos_phi[b][i], ret.out.energy[b][i]}
    ELSE {ret.out[b][i][c] : c \in DOMAIN ret.out[b][i]}

(***************************************************************************)
(* C1: for each of the three top-level models and every input batch, an    *)
(* element whose first feature is 0 has the value zero in every output     *)
(* field: cls, charge, pt, eta, sin_phi, cos_phi and energy.               *)
(***************************************************************************)
C1_MaskedOutputsAreZero ==
    pc = "done" =>
        \A b \in DOMAIN X : \A i \in DOMAIN X[b] :
            X[b][i][1] = 0 => ElementOutputs(b, i) = {0}

(***************************************************************************)
(* C2: when every element of the input batch is zero, the forward pass of  *)
(* PFNetDense returns zero in every output field of every element.         *)
(***************************************************************************)
C2_ZeroBatchGivesZeroOutputs ==
    (/\ pc = "done"
     /\ config.model = "PFNetDense"
     /\ \A b \in DOMAIN X : \A i \in DOMAIN X[b] : X[b][i] = <<0, 0>>)
        => \A b \in DOMAIN X : \A i \in DOMAIN X[b] :
              \A v \in ElementOutputs(b, i) : v = 0

\* pt and energy of element i of batch entry b in the returned output of
\* PFNetDense (either form) and of PFNet with multi_output.
PtOf(b, i) ==
    IF config.multi_output THEN ret.out.pt[b][i]
    ELSE ret.out[b][i][config.num_output_classes + 2]

EnergyOf(b, i) ==
    IF config.multi_output THEN ret.out.energy[b][i]
    ELSE ret.out[b][i][config.num_output_classes + 6]

(***************************************************************************)
(* C10: whatever the regression pre-activation, pt and energy are the      *)
(* exponential of a value inside the clip range, [-6, 8] in PFNetDense,    *)
(* [-4, 4] for pt and [-5, 6] for energy in PFNet with multi_output: they  *)
(* are strictly positive and lie between exp of the lower and exp of the   *)
(* upper clip limit.                                                       *)
(***************************************************************************)
C10_PtEnergyPositiveAndBounded ==
    /\ (pc = "done" /\ config.model = "PFNetDense") =>
          \A b \in DOMAIN X : \A i \in DOMAIN X[b] :
              /\ PtOf(b, i) > 0
              /\ EnergyOf(b, i) > 0
              /\ PtOf(b, i) \in Exp(-6000) .. Exp(8000)
              /\ EnergyOf(b, i) \in Exp(-6000) .. Exp(8000)
    /\ (pc = "done" /\ config.model = "PFNet" /\ config.multi_output) =>
          \A b \in DOMAIN X : \A i \in DOMAIN X[b] :
              /\ PtOf(b, i) > 0
              /\ EnergyOf(b, i) > 0
              /\ PtOf(b, i) \in Exp(-4000) .. Exp(4000)
              /\ EnergyOf(b, i) \in Exp(-5000) .. Exp(6000)

\* A PFNetDense pass whose pt pre-activation is above the clip range for a
\* valid element.
C10_Witness ==
    /\ pc = "done"
    /\ config.model = "PFNetDense"
    /\ \E b \in DOMAIN X : \E i \in DOMAIN X[b] :
          /\ X[b][i][1] # 0
          /\ ret.pred_momentum[b][i][1] > 8000
          /\ ret.pred_momentum[b][i][5] > 8000
          /\ PtOf(b, i) = Exp(8000)
          /\ EnergyOf(b, i) = Exp(8000)

\* Passes with the pre-activation below the clip range, and a PFNet pass
\* with both pre-activations outside its two ranges.
C10_WitnessLow ==
    /\ pc = "done"
    /\ config.model = "PFNetDense"
    /\ \E b \in DOMAIN X : \E i \in DOMAIN X[b] :
          /\ ret.pred_momentum[b][i][1] < -6000
          /\ PtOf(b, i) = Exp(-6000)

C10_WitnessSparse ==
    /\ pc = "done"
    /\ config.model = "PFNet"
    /\ config.multi_output
    /\ \E b \in DOMAIN X : \E i \in DOMAIN X[b] :
          /\ ret.pred_momentum[b][i][1] > 6000
          /\ PtOf(b, i) = Exp(4000)
          /\ EnergyOf(b, i) = Exp(6000)

C10_WitnessSparseLow ==
    /\ pc = "done"
    /\ config.model = "PFNet"
    /\ config.multi_output
    /\ \E b \in DOMAIN X : \E i \in DOMAIN X[b] :
          /\ ret.pred_momentum[b][i][1] < -5000
          /\ PtOf(b, i) = Exp(-4000)
          /\ EnergyOf(b, i) = Exp(-5000)

\* charge of element i of batch entry b in the returned output.
ChargeOf(b, i) ==
    IF config.multi_output THEN ret.out.charge[b][i]
    ELSE ret.out[b][i][config.num_output_classes + 1]

(***************************************************************************)
(* C11: for every input, the charge output of PFNet and of PFNetDense      *)
(* lies in [-2, 2] for every element.                                      *)
(***************************************************************************)
C11_ChargeInRange ==
    (pc = "done" /\ config.model \in {"PFNetDense", "PFNet"}) =>
        \A b \in DOMAIN X : \A i \in DOMAIN X[b] : ChargeOf(b, i) \in -2000 .. 2000

\* A PFNetDense pass with a valid element whose charge sits on the upper
\* limit next to a masked element with charge 0.
C11_Witness ==
    /\ pc = "done"
    /\ config.model = "PFNetDense"
    /\ \E b \in DOMAIN X : \E i, j \in DOMAIN X[b] :
          /\ X[b][i][1] # 0
          /\ ChargeOf(b, i) = 2000
          /\ ret.pred_momentum[b][i][2] > 2000
          /\ X[b][j][1] = 0
          /\ ChargeOf(b, j) = 0

\* A PFNet pass with a charge on the lower limit.
C11_WitnessSparseLow ==
    /\ pc = "done"
    /\ config.model = "PFNet"
    /\ \E b \in DOMAIN X : \E i \in DOMAIN X[b] : ChargeOf(b, i) = -2000

(***************************************************************************)
(* C12: in GHConv and in GHConvDense the base of the power -1/2 of the     *)
(* degree normalization, in_degrees + 1e-6, is strictly positive for       *)
(* every node, a node with an all-zero adjacency row and adjacency         *)
(* entries of either sign included.                                        *)
(***************************************************************************)
C12_DegreeBasePositive ==
    (pc = "done" /\ config.type \in {"GHConv", "GHConvDense"}) =>
        \A i \in DOMAIN ret.in_degrees :
            /\ ret.in_degrees[i] >= 0
            /\ DegreeBase(ret.in_degrees[i]) > 0
            /\ InvSqrt(ret.in_degrees[i]) > 0

\* A GHConv call on a bin with a node without neighbours and a node whose
\* adjacency row sums to a negative value.
C12_Witness ==
    /\ pc = "done"
    /\ config.type = "GHConv"
    /\ \E i, j \in DOMAIN X :
          /\ \A k \in DOMAIN X : dm.value[i][k] = 0
          /\ ret.in_degrees[i] = 0
          /\ DegreeBase(ret.in_degrees[i]) = 1
          /\ dm.value[j][i] = -1000
          /\ dm.value[j][j] = 500
          /\ ret.in_degrees[j] = 1500

\* The same for GHConvDense with the degree normalization.
C12_WitnessDense ==
    /\ pc = "done"
    /\ config.type = "GHConvDense"
    /\ config.normalize_degrees
    /\ \E i, j \in DOMAIN X :
          /\ \A k \in DOMAIN X : dm.value[i][k] = 0
          /\ ret.in_degrees[i] = 0
          /\ dm.value[j][i] = -1000
          /\ ret.in_degrees[j] >= 1000

\* The valid elements of batch entry b and the sum of a (N) tensor over them.
ValidElements(b) == {i \in DOMAIN X[b] : X[b][i][1] # 0}

ValidSum(enc, b) ==
    SumSeq([q \in 1 .. Cardinality(DOMAIN enc) |->
               IF q - 1 \in ValidElements(b) THEN enc[q - 1] ELSE 0])

(***************************************************************************)
(* C13: the graph summary PFNetDense broadcasts to every element is, per   *)
(* batch entry, the mean of the last graph-layer encoding over the valid   *)
(* elements only: their sum divided by their number.                       *)
(***************************************************************************)
C13_GraphSumIsMeanOverValid ==
    (pc = "heads_id" /\ config.model = "PFNetDense") =>
        \A b \in DOMAIN X :
            ValidElements(b) # {} =>
                ret.graph_sum[b] = ValidSum(ret.enc_id[b], b) \div Cardinality(ValidElements(b))

\* The same statement for batch entries without a masked element, where the
\* two means are the same number.
C13_AllValidMean ==
    (pc = "heads_id" /\ config.model = "PFNetDense") =>
        \A b \in DOMAIN X :
            ValidElements(b) = DOMAIN X[b] =>
                ret.graph_sum[b] = ValidSum(ret.enc_id[b], b) \div Cardinality(ValidElements(b))

(***************************************************************************)
(* SpecBuilders: the two graph builders, SparseHashedNNDistance.call and   *)
(* GraphBuilderDense.call, on one event whose number of elements need not  *)
(* be a multiple of bin_size.                                              *)
(***************************************************************************)
MaxBuilderPoints == 5
Builders == {"SparseHashedNNDistance", "GraphBuilderDense"}

BuildersInit ==
    /\ \E n \in 1 .. MaxBuilderPoints :
          /\ X \in [Range0(1) -> [Range0(n) -> Coords]]
          /\ \E builder \in Builders :
                /\ \E bs \in 1 .. (MaxBinSize + 1) :
                   \E k \in IF builder = "GraphBuilderDense" THEN {1}
                            ELSE 1 .. (MaxNeighbors - 1) :
                      config = [builder |-> builder, bin_size |-> bs,
                                num_neighbors |-> k, dist_mult |-> 1000,
                                kernel |-> "learnable", clip_value_low |-> 0]
                /\ IF builder = "GraphBuilderDense"
                   THEN msk \in [Range0(1) -> [Range0(n) -> BOOLEAN]]
                   ELSE msk = None
    /\ \E c \in CodeVals :
          weights = [codebook |-> [j \in Range0(max_num_bins \div 2) |-> c],
                     kernel |-> -1000, bias |-> 500]
    /\ pc = "start"
    /\ bins_split = None
    /\ dm = None
    /\ ret = None

BuildersNext ==
    \/ config.builder = "SparseHashedNNDistance" /\ SparseNext
    \/ config.builder = "GraphBuilderDense" /\ DenseNext

SpecBuilders == BuildersInit /\ [][BuildersNext]_vars

(***************************************************************************)
(* C14: when the number of elements N of the event is not a multiple of    *)
(* bin_size, the sparse and the dense graph builder both end in an error   *)
(* once the bin assignment is attempted: no bin assignment and no          *)
(* adjacency is produced, no element is dropped or padded.                 *)
(***************************************************************************)
C14_NonDivisibleRaises ==
    (NPoints % config.bin_size # 0 /\ pc \notin {"start", "encoded"})
        => /\ pc = "raised"
           /\ ~IsOk(bins_split)
           /\ dm = None

\* The dense builder, five elements in bins of two: two bins, the reshape
\* of five sorted indices fails.
C14_Witness ==
    /\ config.builder = "GraphBuilderDense"
    /\ NPoints = 5 /\ config.bin_size = 2
    /\ pc = "raised"
    /\ bins_split.status = "error" /\ bins_split.why = "reshape"

C14_WitnessSparse ==
    /\ config.builder = "SparseHashedNNDistance"
    /\ NPoints = 5 /\ config.bin_size = 2
    /\ pc = "raised"
    /\ bins_split.status = "error" /\ bins_split.why = "reshape"

(***************************************************************************)
(* Construction of the models.  An object is a record of the attributes    *)
(* its __init__ sets; a raised exception is an Error.                      *)
(***************************************************************************)
\* classes[class_name] raises KeyError for a name that is not in the table.
get_conv_layer(config_dict) ==
    IF config_dict.type \notin {"MPNNNodeFunction", "GHConvDense"}
    THEN Error("KeyError")
    ELSE [status |-> "ok", value |-> [class |-> config_dict.type]]

\* GraphBuilderDense.__init__: the kernel name is stored; only "learnable"
\* creates ffn_dist, no name is refused.
GraphBuilderDenseInit(kernel) ==
    [status |-> "ok",
     value |-> [class |-> "GraphBuilderDense", kernel |-> kernel,
                ffn_dist |-> kernel = "learnable"]]

\* CombinedGraphLayer.__init__: self.dist and the list self.convs of
\* num_conv layers from get_conv_layer.
CombinedGraphLayerInit(cfg) ==
    LET dist == GraphBuilderDenseInit(cfg.graph_kernel)
        conv == get_conv_layer(cfg.conv_config)
    IN  IF cfg.num_conv >= 1 /\ ~IsOk(conv)
        THEN conv
        ELSE [status |-> "ok",
              value |-> [class |-> "CombinedGraphLayer", dist |-> dist.value,
                         convs |-> [iconv \in 1 .. cfg.num_conv |-> conv.value]]]

\* PFNetDense.__init__: the lists cg_id and cg_reg of num_gsl layers.
PFNetDenseInit(cfg) ==
    LET cg == CombinedGraphLayerInit(cfg)
    IN  IF cfg.num_gsl >= 1 /\ ~IsOk(cg)
        THEN cg
        ELSE [status |-> "ok",
              value |-> [class |-> "PFNetDense",
                         cg_id |-> [i \in 1 .. cfg.num_gsl |-> cg.value],
                         cg_reg |-> [i \in 1 .. cfg.num_gsl |-> cg.value]]]

\* PFNet.__init__: convs_id and convs_reg are filled in the branch of
\* convlayer; the name SGConv is not defined in the module; there is no
\* else branch.
PFNetInit(cfg) ==
    IF cfg.convlayer = "sgconv" /\ cfg.num_conv >= 1
    THEN Error("NameError: SGConv")
    ELSE LET convs == IF cfg.convlayer = "ghconv"
                      THEN [iconv \in 1 .. cfg.num_conv |-> [class |-> "GHConv"]]
                      ELSE <<>>
         IN  [status |-> "ok",
              value |-> [class |-> "PFNet",
                         dist |-> [class |-> "SparseHashedNNDistance"],
                         gnn_id |-> [class |-> "EncoderDecoderGNN", conv |-> convs],
                         gnn_reg |-> [class |-> "EncoderDecoderGNN", conv |-> convs]]]

(***************************************************************************)
(* SpecConstruct: the construction of PFNet and PFNetDense from            *)
(* configurations drawn from the bounded sets.                             *)
(***************************************************************************)
MaxConv == 2
MaxGsl == 2
ConvNames == {"ghconv", "sgconv", "gcn", "MPNNNodeFunction", "GHConvDense", "GHConv"}
KernelNames == {"gaussian", "learnable", "sigmoid", "cosine"}

ConstructInit ==
    /\ \E model \in {"PFNet", "PFNetDense"}, t \in ConvNames, k \in KernelNames,
          nc \in 0 .. MaxConv, ng \in 0 .. MaxGsl :
          /\ model = "PFNet" => (k = "gaussian" /\ ng = 1)
          /\ config = [model |-> model,
                       convlayer |-> IF model = "PFNet" THEN t ELSE "ghconv",
                       conv_config |-> [type |-> IF model = "PFNetDense" THEN t
                                                 ELSE "GHConvDense"],
                       graph_kernel |-> k, num_conv |-> nc, num_gsl |-> ng]
    /\ weights = None
    /\ X = None
    /\ msk = None
    /\ pc = "start"
    /\ bins_split = None
    /\ dm = None
    /\ ret = None

ConstructPFNet ==
    /\ pc = "start"
    /\ config.model = "PFNet"
    /\ ret' = PFNetInit(config)
    /\ pc' = IF IsOk(ret') THEN "constructed" ELSE "raised"
    /\ UNCHANGED <<config, weights, X, msk, bins_split, dm>>

ConstructPFNetDense ==
    /\ pc = "start"
    /\ config.model = "PFNetDense"
    /\ ret' = PFNetDenseInit(config)
    /\ pc' = IF IsOk(ret') THEN "constructed" ELSE "raised"
    /\ UNCHANGED <<config, weights, X, msk, bins_split, dm>>

ConstructNext == ConstructPFNet \/ ConstructPFNetDense

SpecConstruct == ConstructInit /\ [][ConstructNext]_vars

(***************************************************************************)
(* C15: constructing PFNetDense (conv_config type) or PFNet (convlayer)    *)
(* with a convolution type name that is not one of the supported kinds,    *)
(* and at least one convolution layer asked for, ends in an error: no      *)
(* model object, in particular none with an empty convolution stack, is    *)
(* returned.                                                               *)
(***************************************************************************)
SupportedConv(cfg) ==
    IF cfg.model = "PFNet" THEN cfg.convlayer \in {"sgconv", "ghconv"}
    ELSE cfg.conv_config.type \in {"MPNNNodeFunction", "GHConvDense"}

C15_UnknownConvTypeFails ==
    (pc # "start" /\ ~SupportedConv(config) /\ config.num_conv >= 1
        /\ config.num_gsl >= 1)
        => (pc = "raised" /\ ret.status = "error")

\* The part of C15 that holds: PFNetDense with an unknown conv_config type.
C15_DenseUnknownConvTypeFails ==
    (pc # "start" /\ config.model = "PFNetDense" /\ ~SupportedConv(config)
        /\ config.num_conv >= 1 /\ config.num_gsl >= 1)
        => (pc = "raised" /\ ret.status = "error" /\ ret.why = "KeyError")

(***************************************************************************)
(* C16: a dense graph builder that was constructed never fails in its      *)
(* kernel branch: a kernel name without a similarity computation is        *)
(* refused at construction, and for each of gaussian, learnable and        *)
(* sigmoid the forward pass yields an adjacency whenever the bin           *)
(* assignment succeeded.                                                   *)
(***************************************************************************)
C16_ConstructedKernelYieldsAdjacency ==
    pc = "raised" => ~IsOk(bins_split)

\* The first half of C16 at construction: no constructed builder carries a
\* kernel name outside the three of the design.
C16_UnknownKernelRefused ==
    (pc = "constructed" /\ config.model = "PFNetDense")
        => \A i \in DOMAIN ret.value.cg_id :
              ret.value.cg_id[i].dist.kernel \in {"gaussian", "learnable", "sigmoid"}

\* The part of C16 that holds: the learnable kernel yields an adjacency.
C16_LearnableYieldsAdjacency ==
    (config.kernel = "learnable" /\ pc = "raised") => ~IsOk(bins_split)

(***************************************************************************)
(* C17: the "enc" CombinedGraphLayer.call returns has one row for every    *)
(* input element of every batch entry, and row i of it is the output the   *)
(* convolutions computed for input element i: the element that the bin     *)
(* assignment puts at position e of bin n has, as its row, the output at   *)
(* position e of bin n.  Checked on the layer of cg_id, whose result is    *)
(* in ret.enc_id and whose builder result is in dm.                        *)
(***************************************************************************)
C17_EncInInputOrder ==
    (pc = "conv_id")
        => LET x_binned == ConvStack(config, weights, config.num_conv, dm.x_binned, dm)
           IN  \A b \in DOMAIN X :
                  /\ DOMAIN ret.enc_id[b] = DOMAIN X[b]
                  /\ \A n \in DOMAIN dm.bins[b] : \A e \in DOMAIN dm.bins[b][n] :
                        ret.enc_id[b][dm.bins[b][n][e]] = x_binned[b][n][e]

\* Two elements in bins of one, the bin assignment swaps them and their
\* outputs differ.
C17_Witness ==
    /\ pc = "conv_id"
    /\ DOMAIN X[0] = Range0(2)
    /\ dm.bins[0][0][0] = 1 /\ dm.bins[0][1][0] = 0
    /\ ret.enc_id[0][0] # ret.enc_id[0][1]

(***************************************************************************)
(* C18: every weight of the adjacency the dense builder returns between    *)
(* two valid elements of a bin is a similarity in (0, 1].                  *)
(***************************************************************************)
C18_ValidWeightsInUnitInterval ==
    (pc = "built")
        => \A b \in DOMAIN ret.dm : \A n \in DOMAIN ret.dm[b] :
              \A i \in DOMAIN ret.dm[b][n] : \A j \in DOMAIN ret.dm[b][n][i] :
                 (ret.msk_f_binned[b][n][i] = 1000 /\ ret.msk_f_binned[b][n][j] = 1000)
                    => (0 < ret.dm[b][n][i][j] /\ ret.dm[b][n][i][j] <= 1000)

\* The part of C18 on the sparse builder: the refined edge weights are
\* sigmoid values, in [0, 1] at the precision of the model.
C18_SparseWeightsInUnitInterval ==
    (pc = "done")
        => \A p \in DOMAIN dm.value : 0 <= dm.value[p].val /\ dm.value[p].val <= 1000

(***************************************************************************)
(* C19: for every number of bins n_bins = N / bin_size the builders use,   *)
(* even or odd, the LSH score vector cmul of every element (the            *)
(* projection concatenated with its negation) is exactly n_bins wide, so   *)
(* that the argmax over it ranges over 0 .. n_bins - 1.                    *)
(***************************************************************************)
ScoreWidths(b) ==
    LET cmul == Cmul(X[b], weights.codebook, NBins(NPoints, config.bin_size))
    IN  {Cardinality(DOMAIN cmul[i]) : i \in DOMAIN cmul}

C19_ScoreVectorIsNBinsWide ==
    (pc # "start" /\ NPoints % config.bin_size = 0)
        => \A b \in DOMAIN X : ScoreWidths(b) = {NBins(NPoints, config.bin_size)}

\* The part of C19 that holds: an even number of bins.
C19_EvenScoreVectorIsNBinsWide ==
    (pc # "start" /\ NPoints % config.bin_size = 0
        /\ NBins(NPoints, config.bin_size) % 2 = 0)
        => \A b \in DOMAIN X : ScoreWidths(b) = {NBins(NPoints, config.bin_size)}

(***************************************************************************)
(* C20: in MPNNNodeFunction the averaged incoming message of a valid node  *)
(* is the mean over the valid elements of its bin: the sum of the          *)
(* adjacency weights from the valid elements divided by the number of      *)
(* valid elements.  Stated for an adjacency whose rows and columns of      *)
(* masked elements are zero, as the dense builder returns it.              *)
(***************************************************************************)
ValidPositions == {j \in DOMAIN msk : msk[j]}

AdjacencyIsMasked ==
    \A i, j \in DOMAIN msk : (~msk[i] \/ ~msk[j]) => dm.value[i][j] = 0

C20_AvgMessageOverValid ==
    (pc = "done" /\ config.type = "MPNNNodeFunction" /\ AdjacencyIsMasked)
        => \A i \in ValidPositions :
              ret.avg_message[i] =
                  SumSeq([q \in 1 .. Cardinality(DOMAIN msk) |->
                             IF q - 1 \in ValidPositions THEN dm.value[i][q - 1] ELSE 0])
                      \div Cardinality(ValidPositions)

\* The part of C20 that holds: with no masked element in the bin the two
\* means are the same.
C20_AvgMessageAllValid ==
    (pc = "done" /\ config.type = "MPNNNodeFunction" /\ ValidPositions = DOMAIN msk)
        => \A i \in DOMAIN msk :
              ret.avg_message[i] =
                  SumSeq([q \in 1 .. Cardinality(DOMAIN msk) |-> dm.value[i][q - 1]])
                      \div Cardinality(DOMAIN msk)

(***************************************************************************)
(* C21: with multi_output false, the concatenated tensor PFNet and         *)
(* PFNetDense return holds the values of the mapping they return with      *)
(* multi_output true, in the order cls, charge, pt, eta, sin_phi, cos_phi, *)
(* energy.                                                                 *)
(***************************************************************************)
NamedOfPass ==
    IF config.model = "PFNet"
    THEN PFNetOutputs([config EXCEPT !.multi_output = TRUE], ret.out_id_logits,
                      ret.out_charge, ret.pred_momentum)
    ELSE PFNetDenseOutputs(config, ret.out_id_logits, ret.out_charge,
                           ret.pred_momentum)

C21_ConcatHoldsNamedValues ==
    (pc = "done" /\ config.model \in {"PFNet", "PFNetDense"} /\ ~config.multi_output)
        => ret.out = ConcatOutputs(NamedOfPass)

\* The part of C21 that holds: PFNetDense.
C21_DenseConcatHoldsNamedValues ==
    (pc = "done" /\ config.model = "PFNetDense" /\ ~config.multi_output)
        => ret.out = ConcatOutputs(NamedOfPass)

(***************************************************************************)
(* The checkpoint utilities of utils.py.  A path or file name is the       *)
(* sequence of its characters; the characters that occur are the digits,   *)
(* "-", ".", "/" and "a" for a letter.                                     *)
(***************************************************************************)
Digits == <<"0", "1", "2", "3", "4", "5", "6", "7", "8", "9">>
IsDigit(c) == \E d \in DOMAIN Digits : Digits[d] = c
DigitVal(c) == (CHOOSE d \in DOMAIN Digits : Digits[d] = c) - 1

\* The number of digits of s from position p on, up to the first character
\* that is not a digit.
RECURSIVE DigitRun(_, _)
DigitRun(s, p) ==
    IF p > Len(s) \/ ~IsDigit(s[p]) THEN 0 ELSE 1 + DigitRun(s, p + 1)

(***************************************************************************)
(* re.search("\d+-\d+.\d+", s): MatchEnd is the last position of the match *)
(* of the pattern that begins at p, 0 when there is none.  Both outer \d+  *)
(* are maximal runs; the middle \d+ takes the most digits k that leave     *)
(* one character (any) and at least one digit behind it.                   *)
(***************************************************************************)
MatchEnd(s, p) ==
    LET r1 == DigitRun(s, p)
        q == p + r1 + 1
        r2 == DigitRun(s, q)
        ks == {k \in 1 .. r2 : q + k <= Len(s) /\ DigitRun(s, q + k + 1) >= 1}
    IN  IF r1 = 0 \/ p + r1 > Len(s) \/ s[p + r1] # "-" \/ ks = {}
        THEN 0
        ELSE LET k == CHOOSE k \in ks : \A l \in ks : l <= k
             IN  q + k + DigitRun(s, q + k + 1)

re_search(s) ==
    LET starts == {p \in 1 .. Len(s) : MatchEnd(s, p) # 0}
    IN  IF starts = {} THEN None
        ELSE LET p == CHOOSE p \in starts : \A o \in starts : p <= o
             IN  [status |-> "ok", value |-> SubSeq(s, p, MatchEnd(s, p))]

\* str.split("-")[-1] and str.split("-")[0].
SplitLast(t) ==
    LET dashes == {p \in 1 .. Len(t) : t[p] = "-"}
    IN  IF dashes = {} THEN t
        ELSE SubSeq(t, (CHOOSE p \in dashes : \A o \in dashes : o <= p) + 1, Len(t))

SplitFirst(t) ==
    LET dashes == {p \in 1 .. Len(t) : t[p] = "-"}
    IN  IF dashes = {} THEN t
        ELSE SubSeq(t, 1, (CHOOSE p \in dashes : \A o \in dashes : p <= o) - 1)

\* int(t) of a string of digits.
RECURSIVE ParseDigits(_)
ParseDigits(t) ==
    IF t = <<>> THEN 0 ELSE ParseDigits(SubSeq(t, 1, Len(t) - 1)) * 10 + DigitVal(t[Len(t)])

ParseInt(t) ==
    IF t = <<>> \/ \E p \in 1 .. Len(t) : ~IsDigit(t[p])
    THEN Error("ValueError")
    ELSE [status |-> "ok", value |-> ParseDigits(t)]

\* float(t) in units of 1/1000: digits, or digits "." digits (three
\* decimals are kept).
ParseFloat(t) ==
    LET dots == {p \in 1 .. Len(t) : t[p] = "."}
    IN  IF dots = {} THEN
            LET i == ParseInt(t)
            IN  IF IsOk(i) THEN [status |-> "ok", value |-> i.value * 1000] ELSE i
        ELSE LET d == CHOOSE p \in dots : TRUE
                 whole == SubSeq(t, 1, d - 1)
                 frac == SubSeq(SubSeq(t, d + 1, Len(t)) \o <<"0", "0", "0">>, 1, 3)
             IN  IF Cardinality(dots) > 1 \/ (whole = <<>> /\ d = Len(t))
                    \/ ~IsOk(ParseInt(whole \o <<"0">>)) \/ ~IsOk(ParseInt(frac))
                    \/ \E p \in d + 1 .. Len(t) : ~IsDigit(t[p])
                 THEN Error("ValueError")
                 ELSE [status |-> "ok",
                       value |-> ParseDigits(whole) * 1000 + ParseDigits(frac)]

\* The sort keys: the loss and the epoch number read from a string.
LossKey(s) ==
    LET found == re_search(s)
    IN  IF ~IsOk(found) THEN Error("TypeError") ELSE ParseFloat(SplitLast(found.value))

EpochKey(s) ==
    LET found == re_search(s)
    IN  IF ~IsOk(found) THEN Error("TypeError") ELSE ParseInt(SplitFirst(found.value))

\* list.sort(key=...): the stable sort of a list by the keys of its items.
SortedByKey(list, keys) ==
    LET rank(i) == Cardinality({j \in DOMAIN list : keys[j] < keys[i]})
                   + Cardinality({j \in DOMAIN list : j < i /\ keys[j] = keys[i]}) + 1
    IN  [r \in DOMAIN list |-> list[CHOOSE i \in DOMAIN list : rank(i) = r]]

\* str(path) of a checkpoint file of train_dir.
CheckpointPath(train_dir, name) == train_dir \o <<"/", "a", "/">> \o name

\* get_best_checkpoint(train_dir); checkpoint_list is the result of glob,
\* the names of the files in some order.
get_best_checkpoint(train_dir, checkpoint_list) ==
    LET keys == [i \in DOMAIN checkpoint_list |-> LossKey(checkpoint_list[i])]
    IN  IF \E i \in DOMAIN keys : ~IsOk(keys[i]) THEN Error("sort key")
        ELSE IF checkpoint_list = <<>> THEN Error("IndexError")
        ELSE [status |-> "ok",
              value |-> SortedByKey(checkpoint_list,
                                    [i \in DOMAIN keys |-> keys[i].value])[1]]

get_latest_checkpoint(train_dir, checkpoint_list) ==
    LET keys == [i \in DOMAIN checkpoint_list |-> EpochKey(checkpoint_list[i])]
    IN  IF \E i \in DOMAIN keys : ~IsOk(keys[i]) THEN Error("sort key")
        ELSE IF checkpoint_list = <<>> THEN Error("IndexError")
        ELSE [status |-> "ok",
              value |-> SortedByKey(checkpoint_list,
                            [i \in DOMAIN keys |-> keys[i].value])[Len(checkpoint_list)]]

\* Faulty variant: the files are removed whatever dry_run is.
delete_all_but_best_checkpoint_always(train_dir, dry_run, checkpoint_list) ==
    LET keys == [i \in DOMAIN checkpoint_list |->
                    LossKey(CheckpointPath(train_dir, checkpoint_list[i]))]
        files == {checkpoint_list[i] : i \in DOMAIN checkpoint_list}
    IN  IF Len(checkpoint_list) = 1 \/ Len(checkpoint_list) = 0
        THEN [status |-> "error", why |-> "UserWarning", files |-> files]
        ELSE IF \E i \in DOMAIN keys : ~IsOk(keys[i])
        THEN [status |-> "error", why |-> "sort key", files |-> files]
        ELSE LET sorted == SortedByKey(checkpoint_list,
                                       [i \in DOMAIN keys |-> keys[i].value])
             IN  [status |-> "ok", best_ckpt |-> sorted[1], files |-> {sorted[1]}]

\* Faulty variant: the number of checkpoints is not looked at.
delete_all_but_best_checkpoint_unguarded(train_dir, dry_run, checkpoint_list) ==
    LET keys == [i \in DOMAIN checkpoint_list |->
                    LossKey(CheckpointPath(train_dir, checkpoint_list[i]))]
        files == {checkpoint_list[i] : i \in DOMAIN checkpoint_list}
    IN  IF \E i \in DOMAIN keys : ~IsOk(keys[i])
        THEN [status |-> "error", why |-> "sort key", files |-> files]
        ELSE IF checkpoint_list = <<>>
        THEN [status |-> "error", why |-> "IndexError", files |-> files]
        ELSE LET sorted == SortedByKey(checkpoint_list,
                                       [i \in DOMAIN keys |-> keys[i].value])
             IN  [status |-> "ok", best_ckpt |-> sorted[1],
                  files |-> IF dry_run THEN files ELSE {sorted[1]}]

\* delete_all_but_best_checkpoint(train_dir, dry_run): the result and the
\* files of the directory after the call.  The sort key is read from the
\* whole path of the file.
delete_all_but_best_checkpoint(train_dir, dry_run, checkpoint_list) ==
    LET keys == [i \in DOMAIN checkpoint_list |->
                    LossKey(CheckpointPath(train_dir, checkpoint_list[i]))]
        files == {checkpoint_list[i] : i \in DOMAIN checkpoint_list}
    IN  IF Len(checkpoint_list) = 1 \/ Len(checkpoint_list) = 0
        THEN [status |-> "error", why |-> "UserWarning", files |-> files]
        ELSE IF \E i \in DOMAIN keys : ~IsOk(keys[i])
        THEN [status |-> "error", why |-> "sort key", files |-> files]
        ELSE LET sorted == SortedByKey(checkpoint_list,
                                       [i \in DOMAIN keys |-> keys[i].value])
             IN  [status |-> "ok", best_ckpt |-> sorted[1],
                  files |-> IF dry_run THEN files ELSE {sorted[1]}]

(***************************************************************************)
(* SpecCkpt: get_best_checkpoint, delete_all_but_best_checkpoint,          *)
(* get_best_checkpoint and get_latest_checkpoint called one after the      *)
(* other on a training directory.  X is the set of the checkpoint file     *)
(* names in the weights directory, config the arguments, ret the results   *)
(* of the calls and the files there were before them.                      *)
(***************************************************************************)
MaxCheckpoints == 3
Epochs == {<<"0", "1">>, <<"0", "2">>, <<"1", "0">>}
Losses == {<<"0", ".", "5">>, <<"0", ".", "2", "5">>, <<"1", "2", ".", "0">>}
CheckpointNames ==
    {<<"a", "-">> \o e \o <<"-">> \o l \o <<".", "a", "5">> : e \in Epochs, l \in Losses}
TrainDirs ==
    {<<"a">>,
     <<"a", "-", "2", "1", "-", "1", "1", "-", "0", "5">>,
     <<"a", "1", "-", "0", ".", "5", "a">>,
     <<"a", "1", "-", "2", "a", "3">>}

\* The orders in which glob can list the files.
GlobOrders(files) ==
    {f \in [1 .. Cardinality(files) -> files] :
        \A i, j \in 1 .. Cardinality(files) : f[i] = f[j] => i = j}

CkptInit ==
    /\ \E files \in SUBSET CheckpointNames :
          /\ Cardinality(files) <= MaxCheckpoints
          /\ X = files
          /\ ret = [status |-> "ok", before |-> files]
    /\ \E d \in TrainDirs, dry \in BOOLEAN : config = [train_dir |-> d, dry_run |-> dry]
    /\ weights = None
    /\ msk = None
    /\ pc = "start"
    /\ bins_split = None
    /\ dm = None

CkptGetBest ==
    /\ pc = "start"
    /\ \E checkpoint_list \in GlobOrders(X) :
          ret' = [best_before |-> get_best_checkpoint(config.train_dir, checkpoint_list)]
                    @@ ret
    /\ pc' = "ranked"
    /\ UNCHANGED <<config, weights, X, msk, bins_split, dm>>

CkptDelete ==
    /\ pc = "ranked"
    /\ \E checkpoint_list \in GlobOrders(X) :
          LET done == delete_all_but_best_checkpoint(config.train_dir, config.dry_run,
                                                     checkpoint_list)
          IN  /\ X' = done.files
              /\ ret' = [deleted |-> done] @@ ret
    /\ pc' = "deleted"
    /\ UNCHANGED <<config, weights, msk, bins_split, dm>>

CkptGetBestAfter ==
    /\ pc = "deleted"
    /\ \E checkpoint_list \in GlobOrders(X) :
          ret' = [best_after |-> get_best_checkpoint(config.train_dir, checkpoint_list)]
                    @@ ret
    /\ pc' = "best_after"
    /\ UNCHANGED <<config, weights, X, msk, bins_split, dm>>

CkptGetLatestAfter ==
    /\ pc = "best_after"
    /\ \E checkpoint_list \in GlobOrders(X) :
          ret' = [latest_after |-> get_latest_checkpoint(config.train_dir,
                                                         checkpoint_list)] @@ ret
    /\ pc' = "done"
    /\ UNCHANGED <<config, weights, X, msk, bins_split, dm>>

CkptNext == CkptGetBest \/ CkptDelete \/ CkptGetBestAfter \/ CkptGetLatestAfter

SpecCkpt == CkptInit /\ [][CkptNext]_vars

(***************************************************************************)
(* C22: delete_all_but_best_checkpoint with dry_run false on a directory   *)
(* with two or more checkpoint files leaves exactly one checkpoint file,   *)
(* one whose loss (read from its file name) is minimal among the files     *)
(* there were before the call.                                             *)
(***************************************************************************)
NameLoss(name) == LossKey(name).value

CalledDelete == pc \in {"deleted", "best_after", "done"}

C22_OnlyBestCheckpointLeft ==
    (CalledDelete /\ ~config.dry_run /\ Cardinality(ret.before) >= 2)
        => /\ Cardinality(X) = 1
           /\ X \subseteq ret.before
           /\ \A kept \in X : \A f \in ret.before : NameLoss(kept) <= NameLoss(f)

\* The part of C22 that holds: a path of the training directory in which
\* the pattern of the sort key is not found.
C22_PlainDirOnlyBestCheckpointLeft ==
    (CalledDelete /\ ~config.dry_run /\ Cardinality(ret.before) >= 2
        /\ ~IsOk(re_search(config.train_dir)))
        => /\ Cardinality(X) = 1
           /\ X \subseteq ret.before
           /\ \A kept \in X : \A f \in ret.before : NameLoss(kept) <= NameLoss(f)

(***************************************************************************)
(* C23: delete_all_but_best_checkpoint on a directory with no or exactly   *)
(* one checkpoint file raises UserWarning and deletes nothing: the files   *)
(* after the call are the files before it.                                 *)
(***************************************************************************)
C23_FewCheckpointsRaise ==
    (CalledDelete /\ Cardinality(ret.before) <= 1)
        => /\ ret.deleted.status = "error"
           /\ ret.deleted.why = "UserWarning"
           /\ X = ret.before

\* One checkpoint, dry_run false, in a directory whose path holds the
\* pattern of the sort key.
C23_Witness ==
    /\ pc = "deleted"
    /\ Cardinality(ret.before) = 1
    /\ ~config.dry_run
    /\ IsOk(re_search(config.train_dir))
    /\ ret.deleted.why = "UserWarning"
    /\ X = ret.before

C23_WitnessEmpty ==
    /\ pc = "deleted"
    /\ ret.before = {}
    /\ ret.deleted.why = "UserWarning"

(***************************************************************************)
(* C24: delete_all_but_best_checkpoint with dry_run true removes no file,  *)
(* whatever the number of checkpoints: the files after the call are the    *)
(* files before it.                                                        *)
(***************************************************************************)
C24_DryRunRemovesNothing ==
    (CalledDelete /\ config.dry_run) => X = ret.before

\* Three checkpoints, the call picks a best one and returns.
C24_Witness ==
    /\ pc = "deleted"
    /\ config.dry_run
    /\ Cardinality(ret.before) = 3
    /\ ret.deleted.status = "ok"
    /\ ret.deleted.best_ckpt \in X
    /\ X = ret.before

(***************************************************************************)
(* C25: for any path of the training directory and two or more             *)
(* checkpoints with distinct losses, the file                              *)
(* delete_all_but_best_checkpoint retains is the one get_best_checkpoint   *)
(* returned before the deletion, and after the deletion                    *)
(* get_best_checkpoint and get_latest_checkpoint both return that file.    *)
(***************************************************************************)
DistinctLosses(files) ==
    \A f, g \in files : NameLoss(f) = NameLoss(g) => f = g

C25_RetainedIsBestCheckpoint ==
    (pc = "done" /\ ~config.dry_run /\ Cardinality(ret.before) >= 2
        /\ DistinctLosses(ret.before))
        => /\ X = {ret.best_before.value}
           /\ ret.best_after = ret.best_before
           /\ ret.latest_after = ret.best_before

\* The part of C25 that holds: a path of the training directory in which
\* the pattern of the sort key is not found.
C25_PlainDirRetainedIsBestCheckpoint ==
    (pc = "done" /\ ~config.dry_run /\ Cardinality(ret.before) >= 2
        /\ DistinctLosses(ret.before) /\ ~IsOk(re_search(config.train_dir)))
        => /\ X = {ret.best_before.value}
           /\ ret.best_after = ret.best_before
           /\ ret.latest_after = ret.best_before

(***************************************************************************)
(* jet_reco(px, py, jet_idx, max_jets) of utils.py on one event of N       *)
(* particles.  tf.tensor_scatter_nd_add with an index outside the          *)
(* accumulator raises on a CPU and drops the update on a GPU.              *)
(***************************************************************************)
JetIdxCapped(jet_idx, max_jets) ==
    [i \in DOMAIN jet_idx |-> IF jet_idx[i] <= max_jets THEN jet_idx[i] ELSE 0]

ScatterAdd(indices, updates, max_jets) ==
    [j \in Range0(max_jets) |->
        SumSeq([q \in 1 .. Cardinality(DOMAIN indices) |->
                   IF indices[q - 1] = j THEN updates[q - 1] ELSE 0])]

\* device is "CPU" or "GPU".
jet_reco(px, py, jet_idx, max_jets, device) ==
    LET jet_idx_capped == JetIdxCapped(jet_idx, max_jets)
        jet_px_new == ScatterAdd(jet_idx_capped, px, max_jets)
        jet_py_new == ScatterAdd(jet_idx_capped, py, max_jets)
    IN  IF device = "CPU"
           /\ \E i \in DOMAIN jet_idx_capped : jet_idx_capped[i] \notin Range0(max_jets)
        THEN [status |-> "error", why |-> "scatter index out of bounds",
              jet_idx_capped |-> jet_idx_capped]
        ELSE [status |-> "ok", jet_idx_capped |-> jet_idx_capped,
              jet_pt |-> [j \in Range0(max_jets) |->
                             ISqrt(jet_px_new[j] * jet_px_new[j]
                                   + jet_py_new[j] * jet_py_new[j])]]

\* compute_jet_pt(y_true, y_pred, max_jets) for one event: rows are
\* <<pt, energy, eta, sin_phi, cos_phi, gen_jet_idx>>, the jet index of
\* both calls is the one of y_true.
compute_jet_pt(y_true, y_pred, max_jets, device) ==
    LET jet_idx == [i \in DOMAIN y_true |-> y_true[i][6]]
        reco(y) == jet_reco([i \in DOMAIN y |-> Mul(y[i][1], y[i][5])],
                            [i \in DOMAIN y |-> Mul(y[i][1], y[i][4])],
                            jet_idx, max_jets, device)
    IN  [true |-> reco(y_true), pred |-> reco(y_pred)]

(***************************************************************************)
(* SpecJet: compute_jet_pt on events drawn from the bounded sets.  X holds *)
(* y_true and y_pred, config max_jets and the device.                      *)
(***************************************************************************)
MaxJets == 3
MaxParticles == 2
JetIdxVals == -1 .. (MaxJets + 1)
Directions == {<<600, 800>>, <<0, 1000>>}
TrueRows == {<<5000, 5000, 0, d[1], d[2], j>> : d \in Directions, j \in JetIdxVals}

JetInit ==
    /\ \E n \in 1 .. MaxParticles :
          \E y_true \in [Range0(n) -> TrueRows], pts \in [Range0(n) -> {0, 10000}] :
             X = [y_true |-> y_true,
                  y_pred |-> [i \in Range0(n) |->
                                 <<pts[i], pts[i], 0, y_true[i][4], y_true[i][5], 0>>]]
    /\ \E mj \in 1 .. MaxJets, device \in {"CPU", "GPU"} :
          config = [max_jets |-> mj, device |-> device]
    /\ weights = None
    /\ msk = None
    /\ pc = "start"
    /\ bins_split = None
    /\ dm = None
    /\ ret = None

ComputeJetPt ==
    /\ pc = "start"
    /\ ret' = compute_jet_pt(X.y_true, X.y_pred, config.max_jets, config.device)
    /\ pc' = "done"
    /\ UNCHANGED <<config, weights, X, msk, bins_split, dm>>

JetNext == ComputeJetPt

SpecJet == JetInit /\ [][JetNext]_vars

(***************************************************************************)
(* C26: in jet_reco, for every integer jet_idx (max_jets itself, larger    *)
(* values and negative ones included), the capped index used to            *)
(* scatter-add px and py is inside the bounds of the accumulators of       *)
(* length max_jets: 0 <= jet_idx_capped < max_jets.                        *)
(***************************************************************************)
C26_CappedIndexInBounds ==
    (pc = "done")
        => \A i \in DOMAIN X.y_true :
              /\ ret.true.jet_idx_capped[i] \in Range0(config.max_jets)
              /\ ret.pred.jet_idx_capped[i] \in Range0(config.max_jets)

\* The part of C26 that holds: an index from 0 to max_jets - 1 is kept and
\* an index above max_jets becomes 0.
C26_LargeIndexIsCapped ==
    (pc = "done")
        => \A i \in DOMAIN X.y_true :
              LET j == X.y_true[i][6]
              IN  /\ j \in Range0(config.max_jets) => ret.true.jet_idx_capped[i] = j
                  /\ j > config.max_jets => ret.true.jet_idx_capped[i] = 0

(***************************************************************************)
(* The loss configuration of utils.py.  A configuration is a record of     *)
(* its sections "setup", "loss" and "dataset"; a section is a function     *)
(* from its keys to their values.                                          *)
(***************************************************************************)
RegressionCoefs ==
    {"pt_loss_coef", "eta_loss_coef", "sin_phi_loss_coef", "cos_phi_loss_coef",
     "energy_loss_coef"}
ClassificationCoefs == {"classification_loss_coef", "charge_loss_coef"}

\* config[section][key] = value for every key of keys.
SetKeys(section, keys, value) ==
    [k \in DOMAIN section \cup keys |-> IF k \in keys THEN value ELSE section[k]]

\* Faulty variant: the coefficients are written to the "loss" section.
set_config_loss_in_loss(cfg, trainable) ==
    IF trainable = "classification"
    THEN [cfg EXCEPT !.loss = SetKeys(cfg.loss, RegressionCoefs, 0)]
    ELSE IF trainable = "regression"
    THEN [cfg EXCEPT !.loss = SetKeys(cfg.loss, ClassificationCoefs, 0)]
    ELSE cfg

\* set_config_loss(config, trainable): the keys are those of the "dataset"
\* section; the "regression" branch also writes four of the regression keys.
set_config_loss(cfg, trainable) ==
    IF trainable = "classification"
    THEN [cfg EXCEPT !.dataset = SetKeys(cfg.dataset, RegressionCoefs, 0)]
    ELSE IF trainable = "regression"
    THEN [cfg EXCEPT !.dataset =
              SetKeys(cfg.dataset,
                      ClassificationCoefs \cup
                          {"pt_loss_coef", "eta_loss_coef", "sin_phi_loss_coef",
                           "cos_phi_loss_coef"}, 0)]
    ELSE cfg

\* get_class_loss(config)
get_class_loss(cfg) ==
    IF cfg.setup.classification_loss_type = "categorical_cross_entropy"
    THEN [status |-> "ok", value |-> "CategoricalCrossentropy"]
    ELSE IF cfg.setup.classification_loss_type = "sigmoid_focal_crossentropy"
    THEN [status |-> "ok", value |-> "sigmoid_focal_crossentropy"]
    ELSE Error("KeyError")

\* get_loss_from_params(input_dict): the class of tf.keras.losses named by
\* "type".  A value of the configuration that is a string s is [str |-> s],
\* a dict is the record of its keys; a string has no copy().
KerasLosses == {"MeanSquaredError", "Huber"}
IsString(v, s) == "str" \in DOMAIN v /\ v.str = s

get_loss_from_params(input_dict) ==
    IF "str" \in DOMAIN input_dict THEN Error("AttributeError")
    ELSE IF input_dict.type \notin KerasLosses THEN Error("AttributeError")
    ELSE [status |-> "ok", value |-> input_dict.type]

OutputCoef ==
    [cls |-> "classification_loss_coef", charge |-> "charge_loss_coef",
     pt |-> "pt_loss_coef", eta |-> "eta_loss_coef", sin_phi |-> "sin_phi_loss_coef",
     cos_phi |-> "cos_phi_loss_coef", energy |-> "energy_loss_coef"]

EventLosses ==
    [sliced_wasserstein |-> "sliced_wasserstein_loss", hist_2d |-> "hist_2d_loss",
     gen_jet_mse |-> "gen_jet_mse_loss", gen_jet_logcosh |-> "gen_jet_logcosh_loss"]

\* get_loss_dict(config): loss_dict and loss_weights, functions from the
\* output names to the loss and to the weight.  The keys charge_loss ...
\* energy_loss are not set in the "loss" section: default_loss is used.
get_loss_dict(cfg) ==
    LET cls_loss == get_class_loss(cfg)
        default_loss == [type |-> "MeanSquaredError"]
        met == get_loss_from_params(cfg.loss.met_loss)
        base_dict == [o \in DOMAIN OutputCoef |->
                         IF o = "cls" THEN cls_loss.value
                         ELSE get_loss_from_params(default_loss).value]
        base_weights == [o \in DOMAIN OutputCoef |-> cfg.loss[OutputCoef[o]]]
        event_weights == IF cfg.loss.event_loss # "none"
                         THEN [o \in {"pt_e_eta_phi"} |-> cfg.loss.event_loss_coef]
                         ELSE <<>>
        met_weights == IF ~IsString(cfg.loss.met_loss, "none")
                       THEN [o \in {"met"} |-> cfg.loss.met_loss_coef]
                       ELSE <<>>
        event_dict == IF cfg.loss.event_loss \in DOMAIN EventLosses
                      THEN [o \in {"pt_e_eta_phi"} |-> EventLosses[cfg.loss.event_loss]]
                      ELSE <<>>
        met_dict == IF ~IsString(cfg.loss.met_loss, "none")
                    THEN [o \in {"met"} |-> met.value]
                    ELSE <<>>
    IN  IF ~IsOk(cls_loss) THEN cls_loss
        ELSE IF ~IsString(cfg.loss.met_loss, "none") /\ ~IsOk(met) THEN met
        ELSE [status |-> "ok",
              loss_dict |-> met_dict @@ event_dict @@ base_dict,
              loss_weights |-> met_weights @@ event_weights @@ base_weights]

(***************************************************************************)
(* SpecLoss: set_config_loss(config, trainable) and then get_loss_dict on  *)
(* the configuration it returns.  X is the argument trainable, ret holds   *)
(* the configuration before the call and the result of get_loss_dict.      *)
(***************************************************************************)
CoefVals == {0, 1000, 2000}
Trainables == {"classification", "regression", "all"}
EventLossNames ==
    {"none", "sliced_wasserstein", "hist_2d", "gen_jet_mse", "gen_jet_logcosh",
     "gen_jet_huber"}
MetLosses == {[str |-> "none"], [type |-> "Huber"], [str |-> "mse"]}

LossInit ==
    /\ \E a, b \in CoefVals, ev \in EventLossNames, met \in MetLosses,
          ct \in {"categorical_cross_entropy", "sigmoid_focal_crossentropy", "other"},
          da \in {500, 1000}, with_keys \in BOOLEAN :
          config =
             [setup |-> [classification_loss_type |-> ct],
              loss |-> [event_loss |-> ev, event_loss_coef |-> 1000,
                        met_loss |-> met, met_loss_coef |-> 1000]
                       @@ [k \in ClassificationCoefs \cup RegressionCoefs |->
                              IF k \in ClassificationCoefs THEN a ELSE b],
              dataset |-> IF with_keys
                          THEN [k \in ClassificationCoefs \cup RegressionCoefs \cup
                                      {"padded_num_elem_size"} |-> da]
                          ELSE [k \in {"padded_num_elem_size"} |-> da]]
    /\ X \in Trainables
    /\ weights = None
    /\ msk = None
    /\ pc = "start"
    /\ bins_split = None
    /\ dm = None
    /\ ret = None

SetConfigLoss ==
    /\ pc = "start"
    /\ config' = set_config_loss(config, X)
    /\ ret' = [status |-> "ok", before |-> config]
    /\ pc' = "set"
    /\ UNCHANGED <<weights, X, msk, bins_split, dm>>

GetLossDict ==
    /\ pc = "set"
    /\ ret' = [before |-> ret.before, losses |-> get_loss_dict(config)]
    /\ pc' = "done"
    /\ UNCHANGED <<config, weights, X, msk, bins_split, dm>>

LossNext == SetConfigLoss \/ GetLossDict

SpecLoss == LossInit /\ [][LossNext]_vars

(***************************************************************************)
(* C27: for every configuration get_loss_dict accepts, whatever event_loss *)
(* and met_loss are, the loss_dict and the loss_weights it returns have    *)
(* the same keys.                                                          *)
(***************************************************************************)
C27_LossDictAndWeightsSameKeys ==
    (pc = "done" /\ IsOk(ret.losses))
        => DOMAIN ret.losses.loss_dict = DOMAIN ret.losses.loss_weights

\* The part of C27 that holds: event_loss is "none" or one of the four
\* names get_loss_dict knows.
C27_KnownEventLossSameKeys ==
    (pc = "done" /\ IsOk(ret.losses)
        /\ config.loss.event_loss \in {"none"} \cup DOMAIN EventLosses)
        => DOMAIN ret.losses.loss_dict = DOMAIN ret.losses.loss_weights

(***************************************************************************)
(* C28: after set_config_loss(config, "classification"), get_loss_dict on  *)
(* the resulting configuration returns the weight zero for pt, eta,        *)
(* sin_phi, cos_phi and energy; after set_config_loss(config,              *)
(* "regression") it returns the weight zero for cls and charge.            *)
(***************************************************************************)
C28_ZeroedCoefsAreRead ==
    (pc = "done" /\ IsOk(ret.losses))
        => /\ X = "classification"
                => \A o \in {"pt", "eta", "sin_phi", "cos_phi", "energy"} :
                      ret.losses.loss_weights[o] = 0
           /\ X = "regression"
                => \A o \in {"cls", "charge"} : ret.losses.loss_weights[o] = 0

(***************************************************************************)
(* C29: set_config_loss changes the coefficients of the group that is not  *)
(* trained and nothing else: with "classification" the pt, eta, sin_phi,   *)
(* cos_phi and energy coefficients become zero and every other key keeps   *)
(* its value; with "regression" the classification and charge coefficients *)
(* become zero and every other key keeps its value; with "all" the         *)
(* configuration is unchanged.                                             *)
(***************************************************************************)
KeepsKey(section_before, section_after, k) ==
    /\ k \in DOMAIN section_before <=> k \in DOMAIN section_after
    /\ k \in DOMAIN section_before => section_after[k] = section_before[k]

ZeroesExactly(keys) ==
    /\ config.setup = ret.before.setup
    /\ config.loss = ret.before.loss
    /\ \A k \in keys : k \in DOMAIN config.dataset /\ config.dataset[k] = 0
    /\ \A k \in (DOMAIN config.dataset \cup DOMAIN ret.before.dataset) \ keys :
          KeepsKey(ret.before.dataset, config.dataset, k)

C29_OnlyOtherGroupZeroed ==
    (pc = "set")
        => /\ X = "classification" => ZeroesExactly(RegressionCoefs)
           /\ X = "regression" => ZeroesExactly(ClassificationCoefs)
           /\ X = "all" => config = ret.before

\* The part of C29 that holds: the "classification" and the "all" branch.
C29_ClassificationBranchZeroesRegression ==
    (pc = "set")
        => /\ X = "classification" => ZeroesExactly(RegressionCoefs)
           /\ X = "all" => config = ret.before

(***************************************************************************)
(* Trainable flags (model.py 668-678 and 908-936).  The flags are a        *)
(* function from the layers of the model to BOOLEAN.  A Keras layer that   *)
(* is assigned to an attribute of the model is in self.layers; the layers  *)
(* of a Python list assigned to an attribute are in self.layers one by     *)
(* one.  Setting layer.trainable sets the flag of the layer and of         *)
(* everything nested in it, so a tower is modelled by one flag.            *)
(***************************************************************************)
\* A layer is named by its attribute and its place in the list of that
\* attribute (0 for an attribute that is a single layer).
Layer(name) == <<name, 0>>

PFNetLayers ==
    {Layer(n) : n \in {"enc", "dist", "gnn_id", "layer_id", "layer_charge",
                       "gnn_reg", "layer_momentum"}}

CgId(cfg) == {<<"cg_id", i>> : i \in Range0(cfg.num_gsl)}

CgReg(cfg) == {<<"cg_reg", i>> : i \in Range0(cfg.num_gsl)}

\* separate_momentum: a list of one network per momentum output, named
\* ffn_momentum0, ffn_momentum1, ...; else the single network ffn_momentum.
FfnMomentum(cfg) ==
    IF cfg.separate_momentum
    THEN {<<"ffn_momentum", i>> : i \in Range0(cfg.num_momentum_outputs)}
    ELSE {Layer("ffn_momentum")}

PFNetDenseLayers(cfg) ==
    {Layer(n) : n \in {"enc", "ffn_enc_id", "ffn_enc_reg", "ffn_cls",
                       "ffn_charge"}}
        \cup CgId(cfg) \cup CgReg(cfg) \cup FfnMomentum(cfg)

Layers(cfg) ==
    IF cfg.model = "PFNet" THEN PFNetLayers ELSE PFNetDenseLayers(cfg)

\* A layer is trainable when it is constructed.
FreshFlags(cfg) == [l \in Layers(cfg) |-> TRUE]

\* for layer in self.layers: layer.trainable = value
SetAll(flags, value) == [l \in DOMAIN flags |-> value]

SetLayers(flags, names, value) ==
    [l \in DOMAIN flags |-> IF l \in names THEN value ELSE flags[l]]

PFNet_set_trainable_classification(flags) ==
    [status |-> "ok",
     flags |-> SetLayers(SetAll(flags, FALSE), {Layer("gnn_id"), Layer("layer_id")}, TRUE)]

PFNet_set_trainable_regression(flags) ==
    [status |-> "ok",
     flags |-> SetLayers(SetAll(flags, FALSE),
                         {Layer("gnn_reg"), Layer("layer_momentum")}, TRUE)]

\* self.ffn_momentum.trainable = False.  With separate_momentum the
\* attribute is a list and not a layer.  What the assignment does is decided
\* by the build: a plain list has no such attribute (AttributeError), the
\* list wrapper of the Keras attribute tracking keeps the value as a flag of
\* its own and leaves the flags of the layers in the list as they are.
ListAttrOutcomes == {"AttributeError", "wrapper"}

FreezeMomentum(cfg, flags) ==
    IF ~cfg.separate_momentum
    THEN [status |-> "ok", flags |-> SetLayers(flags, {Layer("ffn_momentum")},
                                      FALSE)]
    ELSE IF cfg.list_attr = "AttributeError"
         THEN [status |-> "error", why |-> "AttributeError", flags |-> flags]
         ELSE [status |-> "ok", flags |-> flags]

PFNetDense_set_trainable_classification(cfg, flags) ==
    LET all_on == SetAll(flags, TRUE)
        reg_off == SetLayers(all_on, {Layer("ffn_enc_reg")} \cup CgReg(cfg),
                             FALSE)
    IN  FreezeMomentum(cfg, reg_off)

PFNetDense_set_trainable_regression(cfg, flags) ==
    LET all_on == SetAll(flags, TRUE)
    IN  [status |-> "ok",
         flags |-> SetLayers(all_on,
                             {Layer("ffn_enc_id")} \cup CgId(cfg)
                                 \cup {Layer("ffn_cls"), Layer("ffn_charge")},
                             FALSE)]

\* for layer in layer_names: self.get_layer(layer).trainable = True
\* get_layer raises ValueError for a name that no layer has.
RECURSIVE EnableNamed(_, _)
EnableNamed(flags, layer_names) ==
    IF layer_names = <<>>
    THEN [status |-> "ok", flags |-> flags]
    ELSE IF Head(layer_names) \notin DOMAIN flags
         THEN [status |-> "error", why |-> "ValueError", flags |-> flags]
         ELSE EnableNamed(SetLayers(flags, {Head(layer_names)}, TRUE),
                          Tail(layer_names))

set_trainable_named(flags, layer_names) ==
    EnableNamed(SetAll(flags, FALSE), layer_names)

MaxCalls == 3
MaxNamed == 2

TrainConfigs ==
    {[model |-> "PFNet", separate_momentum |-> FALSE, num_gsl |-> 0,
      num_momentum_outputs |-> 3, list_attr |-> "wrapper"]}
    \cup [model : {"PFNetDense"}, separate_momentum : BOOLEAN,
          num_gsl : 1 .. MaxGsl, num_momentum_outputs : {3},
          list_attr : ListAttrOutcomes]

LayerNames(cfg) ==
    LET names == Layers(cfg) \cup {Layer("unknown")}
    IN  UNION {[1 .. n -> names] : n \in 0 .. MaxNamed}

TrainInit ==
    /\ config \in TrainConfigs
    /\ weights = FreshFlags(config)
    /\ X = <<>>
    /\ pc = "built"
    /\ ret = None
    /\ msk = None
    /\ bins_split = None
    /\ dm = None

\* One call: X is the sequence of the calls made so far, ret the last call
\* and its outcome, weights the flags it leaves behind.
Called(name, arg, done) ==
    /\ weights' = done.flags
    /\ X' = Append(X, name)
    /\ pc' = "called"
    /\ ret' = [status |-> done.status, call |-> name, arg |-> arg]
    /\ UNCHANGED <<config, msk, bins_split, dm>>

SetTrainableClassification ==
    /\ Len(X) < MaxCalls
    /\ Called("set_trainable_classification", <<>>,
              IF config.model = "PFNet"
              THEN PFNet_set_trainable_classification(weights)
              ELSE PFNetDense_set_trainable_classification(config, weights))

SetTrainableRegression ==
    /\ Len(X) < MaxCalls
    /\ Called("set_trainable_regression", <<>>,
              IF config.model = "PFNet"
              THEN PFNet_set_trainable_regression(weights)
              ELSE PFNetDense_set_trainable_regression(config, weights))

SetTrainableNamed ==
    /\ Len(X) < MaxCalls
    /\ config.model = "PFNetDense"
    /\ \E layer_names \in LayerNames(config) :
          Called("set_trainable_named", layer_names,
                 set_trainable_named(weights, layer_names))

TrainNext ==
    \/ SetTrainableClassification
    \/ SetTrainableRegression
    \/ SetTrainableNamed

SpecTrain == TrainInit /\ [][TrainNext]_vars

\* The last call applied to a model that was just constructed.
LastCallAlone ==
    LET fresh == FreshFlags(config)
    IN  CASE ret.call = "set_trainable_classification" ->
                IF config.model = "PFNet"
                THEN PFNet_set_trainable_classification(fresh)
                ELSE PFNetDense_set_trainable_classification(config, fresh)
          [] ret.call = "set_trainable_regression" ->
                IF config.model = "PFNet"
                THEN PFNet_set_trainable_regression(fresh)
                ELSE PFNetDense_set_trainable_regression(config, fresh)
          [] ret.call = "set_trainable_named" ->
                set_trainable_named(fresh, ret.arg)

ClassificationSide(cfg) ==
    IF cfg.model = "PFNet"
    THEN {Layer("gnn_id"), Layer("layer_id")}
    ELSE {Layer("ffn_enc_id"), Layer("ffn_cls")} \cup CgId(cfg)

RegressionSide(cfg) ==
    IF cfg.model = "PFNet"
    THEN {Layer("gnn_reg"), Layer("layer_momentum")}
    ELSE {Layer("ffn_enc_reg")} \cup CgReg(cfg) \cup FfnMomentum(cfg)

AllFlags(names, value) == \A l \in names : weights[l] = value

(***************************************************************************)
(* C30: after any sequence of calls to set_trainable_classification,       *)
(* set_trainable_regression and (PFNetDense) set_trainable_named the       *)
(* flags are the ones the last call alone gives on a new model; after      *)
(* set_trainable_classification the classification tower and the class     *)
(* head are trainable and the regression tower and the momentum head are   *)
(* frozen; after set_trainable_regression it is the reverse.               *)
(***************************************************************************)
C30_LastCallDecidesFlags ==
    (pc = "called")
        => /\ weights = LastCallAlone.flags
           /\ ret.call = "set_trainable_classification"
                => /\ AllFlags(ClassificationSide(config), TRUE)
                   /\ AllFlags(RegressionSide(config), FALSE)
           /\ ret.call = "set_trainable_regression"
                => /\ AllFlags(ClassificationSide(config), FALSE)
                   /\ AllFlags(RegressionSide(config), TRUE)

\* The part of C30 that holds for every model: the flags do not depend on
\* the calls before the last one, and set_trainable_regression freezes the
\* classification side and trains the regression side.
C30_FlagsIndependentOfHistory ==
    (pc = "called")
        => /\ weights = LastCallAlone.flags
           /\ ret.call = "set_trainable_regression"
                => /\ AllFlags(ClassificationSide(config), FALSE)
                   /\ AllFlags(RegressionSide(config), TRUE)

\* The whole of C30 holds for PFNet and for PFNetDense with a single
\* momentum network.
C30_SingleMomentumNetwork ==
    (pc = "called" /\ ~config.separate_momentum)
        => /\ weights = LastCallAlone.flags
           /\ ret.call = "set_trainable_classification"
                => /\ AllFlags(ClassificationSide(config), TRUE)
                   /\ AllFlags(RegressionSide(config), FALSE)
           /\ ret.call = "set_trainable_regression"
                => /\ AllFlags(ClassificationSide(config), FALSE)
                   /\ AllFlags(RegressionSide(config), TRUE)

\* A classification call after a regression call and a named call.
C30_Witness ==
    /\ pc = "called"
    /\ ~config.separate_momentum
    /\ config.model = "PFNetDense"
    /\ X = <<"set_trainable_regression", "set_trainable_named",
             "set_trainable_classification">>

====
